---- MODULE Spec2Model ----
(***************************************************************************)
(* order-events-schemas: the event schemas (zod), the inbound validator    *)
(* validateEvent and the factories createOrderEvent / createPaymentEvent.  *)
(*                                                                         *)
(* JavaScript values are tagged records, one field name per kind:          *)
(*   undefined, null, boolean b, number num/den (a rational in lowest      *)
(*   terms; 1/0 is Infinity, -1/0 is -Infinity and 0/0 is NaN), string s,  *)
(*   symbol, array a (a sequence), object o (a function from the own       *)
(*   property names to values).                                            *)
(***************************************************************************)
EXTENDS Integers, Sequences, FiniteSets, Bags, TLC

VARIABLES
  input,      \* the value a consumer has received and hands to validateEvent
  last,       \* the last call of the library: its arguments and its outcome
  issued,     \* the values randomUUID() has given so far
  now,        \* the clock, in milliseconds after the base instant
  generated   \* the correlationIds of the events returned to callers that passed none

vars == <<input, last, issued, now, generated>>

(***************************************************************************)
(* Bounds of the model.                                                    *)
(***************************************************************************)
\* the clock is read within this many milliseconds after ClockBase
MaxClock == 1

\* numbers are written with at most this many decimals
MaxDecimals == 6
\* the number of values randomUUID() hands out
MaxUuids == 2
\* the longest items list an event is given
MaxItems == 2

(***************************************************************************)
(* JavaScript values.                                                      *)
(***************************************************************************)
Undefined == [k |-> "undefined"]
Null == [k |-> "null"]
Symbol == [k |-> "symbol"]
Bool(b) == [k |-> "boolean", b |-> b]
Rat(p, q) == [k |-> "number", num |-> p, den |-> q]
Num(i) == Rat(i, 1)
Infinity == Rat(1, 0)
NegInfinity == Rat(-1, 0)
NaN == Rat(0, 0)
Str(s) == [k |-> "string", s |-> s]
Arr(a) == [k |-> "array", a |-> a]
Obj(o) == [k |-> "object", o |-> o]

\* typeof v
typeof(v) ==
  CASE v.k = "undefined" -> "undefined"
    [] v.k = "null" -> "object"
    [] v.k = "boolean" -> "boolean"
    [] v.k = "number" -> "number"
    [] v.k = "string" -> "string"
    [] v.k = "symbol" -> "symbol"
    [] v.k = "array" -> "object"
    [] v.k = "object" -> "object"

\* a test for absence where the code tests for falsiness
FalsyNullishOnly(v) == v.k \in {"undefined", "null"}

\* !v : the falsy values are undefined, null, false, 0 and ""
Falsy(v) ==
  \/ v.k \in {"undefined", "null"}
  \/ v.k = "boolean" /\ ~v.b
  \/ v.k = "number" /\ v.num = 0
  \/ v.k = "string" /\ v.s = ""

\* v ?? d keeps every v but undefined and null
Nullish(v) == v.k \in {"undefined", "null"}

\* key in v, for a v with typeof v = "object" that is not null
HasKey(v, key) == v.k = "object" /\ key \in DOMAIN v.o

\* v.key, for a v that is not undefined or null
Get(v, key) == IF HasKey(v, key) THEN v.o[key] ELSE Undefined

\* the object o with own property key set to v
Put(o, key, v) == [x \in (DOMAIN o) \cup {key} |-> IF x = key THEN v ELSE o[x]]

\* the object o without own property key
Remove(o, key) == [x \in (DOMAIN o) \ {key} |-> o[x]]

RECURSIVE Zeros(_)
Zeros(n) == IF n <= 0 THEN "" ELSE "0" \o Zeros(n - 1)

\* Number.prototype.toString of a number that is no integer and has at most
\* MaxDecimals decimals: the sign, the integer part, a point and the decimals
DecimalString(v) ==
  LET k == CHOOSE i \in 1..MaxDecimals :
             /\ (v.num * 10^i) % v.den = 0
             /\ \A j \in 1..(i - 1) : (v.num * 10^j) % v.den # 0
      abs == IF v.num < 0 THEN 0 - v.num ELSE v.num
      scaled == (abs * 10^k) \div v.den
      frac == ToString(scaled % 10^k)
  IN  (IF v.num < 0 THEN "-" ELSE "") \o ToString(scaled \div 10^k) \o "."
        \o Zeros(k - Len(frac)) \o frac

\* what ToString makes of a value: the string, or the message of the TypeError
Rendered(str) == [threw |-> FALSE, s |-> str, message |-> ""]
NotRendered(message) == [threw |-> TRUE, s |-> "", message |-> message]

\* `${v}` : the string a template literal makes of v, or a TypeError.  A symbol
\* has no string; an object gives "[object Object]" unless it has an own
\* toString, which is no function here; an array is its elements joined.
\* JoinElements(a, i) is Array.prototype.join for the elements from i on: null
\* and undefined give the empty string.
RECURSIVE TemplateString(_), JoinElements(_, _)
JoinElements(a, i) ==
  IF i > Len(a) THEN Rendered("")
  ELSE LET head == IF a[i].k \in {"undefined", "null"} THEN Rendered("")
                   ELSE TemplateString(a[i])
       IN  IF head.threw THEN head
           ELSE LET rest == JoinElements(a, i + 1)
                IN  IF rest.threw THEN rest
                    ELSE Rendered(head.s \o (IF i < Len(a) THEN "," ELSE "") \o rest.s)

TemplateString(v) ==
  CASE v.k = "string" -> Rendered(v.s)
    [] v.k = "number" /\ v.den = 1 -> Rendered(ToString(v.num))
    [] v.k = "number" /\ v.den = 0 ->
         Rendered(IF v.num > 0 THEN "Infinity" ELSE IF v.num < 0 THEN "-Infinity" ELSE "NaN")
    [] v.k = "number" /\ v.den > 1 -> Rendered(DecimalString(v))
    [] v.k = "boolean" -> Rendered(IF v.b THEN "true" ELSE "false")
    [] v.k = "undefined" -> Rendered("undefined")
    [] v.k = "null" -> Rendered("null")
    [] v.k = "object" ->
         IF "toString" \in DOMAIN v.o
         THEN NotRendered("Cannot convert object to primitive value")
         ELSE Rendered("[object Object]")
    [] v.k = "array" -> JoinElements(v.a, 1)
    [] v.k = "symbol" -> NotRendered("Cannot convert a Symbol value to a string")

(***************************************************************************)
(* The wire format: JSON.parse(JSON.stringify(v)).  A property whose value *)
(* is undefined or a symbol is left out, such an element of an array       *)
(* becomes null, and so does a number that is not finite.                  *)
(***************************************************************************)
RECURSIVE JsonValue(_)
JsonValue(v) ==
  CASE v.k = "number" -> IF v.den = 0 THEN Null ELSE v
    [] v.k \in {"undefined", "symbol"} -> Null
    [] v.k = "array" -> Arr([i \in 1..Len(v.a) |-> JsonValue(v.a[i])])
    [] v.k = "object" ->
         Obj([x \in {y \in DOMAIN v.o : v.o[y].k \notin {"undefined", "symbol"}} |->
                JsonValue(v.o[x])])
    [] OTHER -> v

(***************************************************************************)
(* Errors and the outcome of a call.                                       *)
(***************************************************************************)
Error(message) == [name |-> "Error", message |-> message]
TypeError(message) == [name |-> "TypeError", message |-> message]
ZodError(issues) == [name |-> "ZodError", issues |-> issues]

Return(v) == [kind |-> "return", value |-> v]
Throw(e) == [kind |-> "throw", error |-> e]

(***************************************************************************)
(* zod: a schema applied to a value v at a path gives the set of issues;   *)
(* the parsed value is v itself for a scalar and the stripped copy for an  *)
(* object.  Every check of a schema runs, so the issues are collected.     *)
(***************************************************************************)
Issue(path, code) == [path |-> path, code |-> code]

Ch(s, i) == SubSeq(s, i, i)
Digits == {"0", "1", "2", "3", "4", "5", "6", "7", "8", "9"}
HexDigits == Digits \cup {"a", "b", "c", "d", "e", "f", "A", "B", "C", "D", "E", "F"}

\* the lexical form 8-4-4-4-12 of hexadecimal digits
uuidRegex(s) ==
  /\ Len(s) = 36
  /\ \A i \in 1..36 :
       IF i \in {9, 14, 19, 24} THEN Ch(s, i) = "-" ELSE Ch(s, i) \in HexDigits

\* the number two decimal digits at i and i + 1 write, and four at i..i + 3
DigitValue(c) ==
  CASE c = "0" -> 0 [] c = "1" -> 1 [] c = "2" -> 2 [] c = "3" -> 3 [] c = "4" -> 4
    [] c = "5" -> 5 [] c = "6" -> 6 [] c = "7" -> 7 [] c = "8" -> 8 [] c = "9" -> 9
Number2(s, i) == 10 * DigitValue(Ch(s, i)) + DigitValue(Ch(s, i + 1))
Number4(s, i) == 100 * Number2(s, i) + Number2(s, i + 2)
AllDigits(s, from, to) == \A i \in from..to : Ch(s, i) \in Digits

\* the days of a month, 29 for the February of a leap year
DaysIn(year, month) ==
  IF month \in {4, 6, 9, 11} THEN 30
  ELSE IF month # 2 THEN 31
  ELSE IF year % 4 = 0 /\ (year % 100 # 0 \/ year % 400 = 0) THEN 29 ELSE 28

\* YYYY-MM-DD of a day that exists, for a string of 10 characters
dateRegex(s) ==
  /\ AllDigits(s, 1, 4) /\ Ch(s, 5) = "-" /\ AllDigits(s, 6, 7) /\ Ch(s, 8) = "-"
  /\ AllDigits(s, 9, 10)
  /\ Number2(s, 6) \in 1..12
  /\ Number2(s, 9) \in 1..DaysIn(Number4(s, 1), Number2(s, 6))

\* HH:MM, HH:MM:SS or HH:MM:SS.d+ with an hour to 23 and minutes and seconds to 59
timeRegex(s) ==
  /\ Len(s) \in {5, 8} \/ Len(s) >= 10
  /\ AllDigits(s, 1, 2) /\ Ch(s, 3) = ":" /\ AllDigits(s, 4, 5)
  /\ Number2(s, 1) <= 23
  /\ Number2(s, 4) <= 59
  /\ Len(s) >= 8 =>
       /\ Ch(s, 6) = ":" /\ AllDigits(s, 7, 8)
       /\ Number2(s, 7) <= 59
  /\ Len(s) >= 10 => Ch(s, 9) = "." /\ AllDigits(s, 10, Len(s))

\* the pattern of z.string().datetime(): a date, T, a time and Z
datetimeRegex(s) ==
  /\ Len(s) >= 17
  /\ dateRegex(SubSeq(s, 1, 10))
  /\ Ch(s, 11) = "T"
  /\ Ch(s, Len(s)) = "Z"
  /\ timeRegex(SubSeq(s, 12, Len(s) - 1))

Pad3(n) ==
  IF n < 10 THEN "00" \o ToString(n)
  ELSE IF n < 100 THEN "0" \o ToString(n) ELSE ToString(n)

\* the instant without its milliseconds
toISOStringSeconds(t) == "2026-10-31T12:00:00Z"

\* new Date().toISOString() at t milliseconds after 2026-10-31T12:00:00Z, t < 1000
toISOString(t) == "2026-10-31T12:00:00." \o Pad3(t) \o "Z"

\* the strings the calls are made with most often, and those of them that match:
\* the two patterns are decided once for these
Uuid1 == "3f2504e0-4f89-41d3-9a0c-0305e82c3301"
Ts1 == "2026-01-01T00:00:00.000Z"
UuidList ==
  <<"9b2e4c1a-7d3f-4a6b-8c5d-1e2f3a4b5c6d", "0a1b2c3d-4e5f-4061-b273-8495a6b7c8d9",
    "f47ac10b-58cc-4372-a567-0e02b2c3d479", "6ba7b810-9dad-41d1-80b4-00c04fd430c8">>
KnownStrings ==
  {Uuid1, Ts1, ""} \cup {UuidList[i] : i \in DOMAIN UuidList}
    \cup {toISOString(t) : t \in 0..MaxClock}
KnownUuids == {s \in KnownStrings : uuidRegex(s)}
KnownDatetimes == {s \in KnownStrings : datetimeRegex(s)}

\* uuidRegex.test(s)
matchesUuid(s) == IF s \in KnownStrings THEN s \in KnownUuids ELSE uuidRegex(s)

\* datetimeRegex.test(s)
matchesDatetime(s) ==
  IF s \in KnownStrings THEN s \in KnownDatetimes ELSE datetimeRegex(s)

\* the parsed type of v is number: a number that is not NaN
IsZodNumber(v) == v.k = "number" /\ v # NaN

\* Number.isInteger(v), for a number v
IsInteger(v) == v.den # 0 /\ v.num % v.den = 0

\* an integer that may be 0
ZNonNegativeInt(v, path) ==
  IF ~IsZodNumber(v) THEN {Issue(path, "invalid_type")}
  ELSE (IF ~IsInteger(v) THEN {Issue(path, "invalid_type")} ELSE {})
       \cup (IF v.num < 0 THEN {Issue(path, "too_small")} ELSE {})

\* z.number().int().positive()
ZPositiveInt(v, path) ==
  IF ~IsZodNumber(v) THEN {Issue(path, "invalid_type")}
  ELSE (IF ~IsInteger(v) THEN {Issue(path, "invalid_type")} ELSE {})
       \cup (IF v.num <= 0 THEN {Issue(path, "too_small")} ELSE {})

\* z.number().positive()
ZPositive(v, path) ==
  IF ~IsZodNumber(v) THEN {Issue(path, "invalid_type")}
  ELSE IF v.num <= 0 THEN {Issue(path, "too_small")} ELSE {}

\* a number that has to be more than 0
ZNonNegativeExclusive(v, path) ==
  IF ~IsZodNumber(v) THEN {Issue(path, "invalid_type")}
  ELSE IF v.num <= 0 THEN {Issue(path, "too_small")} ELSE {}

\* z.number().nonnegative()
ZNonNegative(v, path) ==
  IF ~IsZodNumber(v) THEN {Issue(path, "invalid_type")}
  ELSE IF v.num < 0 THEN {Issue(path, "too_small")} ELSE {}

\* z.string()
ZString(v, path) == IF v.k = "string" THEN {} ELSE {Issue(path, "invalid_type")}

\* a string of any length
ZStringAnyLength(v, path) == IF v.k = "string" THEN {} ELSE {Issue(path, "invalid_type")}

\* z.string().min(1)
ZStringMin1(v, path) ==
  IF v.k # "string" THEN {Issue(path, "invalid_type")}
  ELSE IF Len(v.s) < 1 THEN {Issue(path, "too_small")} ELSE {}

\* z.string().uuid()
ZUuid(v, path) ==
  IF v.k # "string" THEN {Issue(path, "invalid_type")}
  ELSE IF matchesUuid(v.s) THEN {} ELSE {Issue(path, "invalid_string")}

\* z.string().datetime()
ZDatetime(v, path) ==
  IF v.k # "string" THEN {Issue(path, "invalid_type")}
  ELSE IF matchesDatetime(v.s) THEN {} ELSE {Issue(path, "invalid_string")}

\* a boolean that may be left out
ZBooleanOptional(v, path) ==
  IF v.k \in {"boolean", "undefined"} THEN {} ELSE {Issue(path, "invalid_type")}

\* z.boolean()
ZBoolean(v, path) == IF v.k = "boolean" THEN {} ELSE {Issue(path, "invalid_type")}

\* the enum of the four order tags where the schema has its own literal
ZLiteralAsBaseEnum(tag, v, path) ==
  IF v.k = "string"
     /\ v.s \in {"order.created", "order.confirmed", "order.shipped", "order.cancelled"}
  THEN {}
  ELSE {Issue(path, "invalid_enum_value")}

\* z.literal(tag)
ZLiteral(tag, v, path) == IF v = Str(tag) THEN {} ELSE {Issue(path, "invalid_literal")}

\* z.enum(values)
ZEnum(values, v, path) ==
  IF v.k # "string" THEN {Issue(path, "invalid_type")}
  ELSE IF v.s \in values THEN {} ELSE {Issue(path, "invalid_enum_value")}

\* an object schema that keeps the unknown keys
StripNothing(v, shape) == v.o

\* the keys of a z.object's shape that the parsed object keeps: those the input
\* has (unknown keys are stripped)
Strip(v, shape) == [x \in (DOMAIN v.o) \cap shape |-> v.o[x]]

\* what a schema makes of a value: the issues found and the parsed value
ZResult(issues, value) == [issues |-> issues, value |-> value]

\* schema.optional(): undefined passes, anything else goes to the schema
ZOptional(issues, v) == IF v.k = "undefined" THEN {} ELSE issues

(***************************************************************************)
(* The event types and the schemas.                                        *)
(***************************************************************************)
EVENT_TYPES ==
  [ORDER_CREATED |-> "order.created", ORDER_CONFIRMED |-> "order.confirmed",
   ORDER_SHIPPED |-> "order.shipped", ORDER_CANCELLED |-> "order.cancelled"]

\* the two payment tags of release 0.1.0 (EVENT_TYPES.PAYMENT_AUTHORIZED and
\* EVENT_TYPES.PAYMENT_FAILED in the sources that use them)
PAYMENT_EVENT_TYPES ==
  [PAYMENT_AUTHORIZED |-> "payment.authorized", PAYMENT_FAILED |-> "payment.failed"]

BaseKeys == {"type", "orderId", "userId", "correlationId", "timestamp"}

\* orderId, userId, correlationId and timestamp of BaseEventSchema's shape: the
\* issues of the four fields
BaseFields(v) ==
  ZPositiveInt(Get(v, "orderId"), <<"orderId">>)
    \cup ZPositiveInt(Get(v, "userId"), <<"userId">>)
    \cup ZUuid(Get(v, "correlationId"), <<"correlationId">>)
    \cup ZDatetime(Get(v, "timestamp"), <<"timestamp">>)

\* z.object({type: z.enum(tags), orderId, userId, correlationId, timestamp})
BaseSchema(tags, v) ==
  IF v.k # "object" THEN ZResult({Issue(<<>>, "invalid_type")}, v)
  ELSE ZResult(ZEnum(tags, Get(v, "type"), <<"type">>) \cup BaseFields(v),
               Obj(Strip(v, BaseKeys)))

\* BaseEventSchema of the six-type release: the enum has the six tags
BaseEventSchema(v) ==
  BaseSchema({EVENT_TYPES.ORDER_CREATED, EVENT_TYPES.ORDER_CONFIRMED,
              EVENT_TYPES.ORDER_SHIPPED, EVENT_TYPES.ORDER_CANCELLED,
              PAYMENT_EVENT_TYPES.PAYMENT_AUTHORIZED, PAYMENT_EVENT_TYPES.PAYMENT_FAILED}, v)

\* BaseEventSchema of the four-type release
BaseEventSchemaLegacy(v) ==
  BaseSchema({EVENT_TYPES.ORDER_CREATED, EVENT_TYPES.ORDER_CONFIRMED,
              EVENT_TYPES.ORDER_SHIPPED, EVENT_TYPES.ORDER_CANCELLED}, v)

\* a schema that turns the timestamp into a Date in its output
ExtendedSchemaCoerceDate(tag, d, v) ==
  IF v.k # "object" THEN ZResult({Issue(<<>>, "invalid_type")}, v)
  ELSE ZResult(ZLiteral(tag, Get(v, "type"), <<"type">>) \cup BaseFields(v)
                 \cup d.issues,
               LET kept == Put(Strip(v, BaseKeys \cup {"data"}), "timestamp", Obj(<<>>))
               IN  Obj(IF "data" \in DOMAIN kept THEN Put(kept, "data", d.value)
                       ELSE kept))

\* BaseEventSchema.extend({type: z.literal(tag), data: DataSchema}), given what
\* DataSchema makes of v.data
ExtendedSchema(tag, d, v) ==
  IF v.k # "object" THEN ZResult({Issue(<<>>, "invalid_type")}, v)
  ELSE ZResult(ZLiteral(tag, Get(v, "type"), <<"type">>) \cup BaseFields(v)
                 \cup d.issues,
               LET kept == Strip(v, BaseKeys \cup {"data"})
               IN  Obj(IF "data" \in DOMAIN kept THEN Put(kept, "data", d.value)
                       ELSE kept))

OrderItemSchema(v, path) ==
  IF v.k # "object" THEN ZResult({Issue(path, "invalid_type")}, v)
  ELSE ZResult(ZPositiveInt(Get(v, "productId"), Append(path, "productId"))
                 \cup ZPositiveInt(Get(v, "quantity"), Append(path, "quantity"))
                 \cup ZPositive(Get(v, "price"), Append(path, "price")),
               Obj(Strip(v, {"productId", "quantity", "price"})))

\* an array of items that may be empty
OrderItemsSchemaNoMin(v, path) ==
  IF v.k # "array" THEN ZResult({Issue(path, "invalid_type")}, v)
  ELSE ZResult(UNION {OrderItemSchema(v.a[i], Append(path, ToString(i - 1))).issues :
                        i \in 1..Len(v.a)},
               Arr([i \in 1..Len(v.a) |-> OrderItemSchema(v.a[i], path).value]))

\* z.array(OrderItemSchema).min(1)
OrderItemsSchema(v, path) ==
  IF v.k # "array" THEN ZResult({Issue(path, "invalid_type")}, v)
  ELSE ZResult((IF Len(v.a) < 1 THEN {Issue(path, "too_small")} ELSE {})
                 \cup UNION {OrderItemSchema(v.a[i], Append(path, ToString(i - 1))).issues :
                               i \in 1..Len(v.a)},
               Arr([i \in 1..Len(v.a) |-> OrderItemSchema(v.a[i], path).value]))

\* a copy that keeps the items as they are given
StripDataShallow(v, shape, path) == Obj(Strip(v, shape))

\* the parsed copy of a data object: the shape's keys it has, items parsed
StripData(v, shape, path) ==
  LET kept == Strip(v, shape)
  IN  Obj(IF "items" \in DOMAIN kept
          THEN Put(kept, "items", OrderItemsSchema(kept["items"], path).value)
          ELSE kept)

OrderCreatedDataSchema(v, path) ==
  IF v.k # "object" THEN ZResult({Issue(path, "invalid_type")}, v)
  ELSE ZResult(OrderItemsSchema(Get(v, "items"), Append(path, "items")).issues
                 \cup ZPositive(Get(v, "totalAmount"), Append(path, "totalAmount"))
                 \cup ZOptional(ZString(Get(v, "shippingAddress"),
                                        Append(path, "shippingAddress")),
                                Get(v, "shippingAddress")),
               StripData(v, {"items", "totalAmount", "shippingAddress"}, path))

OrderCreatedSchema(v) ==
  ExtendedSchema(EVENT_TYPES.ORDER_CREATED,
                 OrderCreatedDataSchema(Get(v, "data"), <<"data">>), v)

OrderConfirmedDataSchema(v, path) ==
  IF v.k # "object" THEN ZResult({Issue(path, "invalid_type")}, v)
  ELSE ZResult(OrderItemsSchema(Get(v, "items"), Append(path, "items")).issues
                 \cup ZPositive(Get(v, "totalAmount"), Append(path, "totalAmount"))
                 \cup ZOptional(ZString(Get(v, "paymentId"), Append(path, "paymentId")),
                                Get(v, "paymentId")),
               StripData(v, {"items", "totalAmount", "paymentId"}, path))

OrderConfirmedSchema(v) ==
  ExtendedSchema(EVENT_TYPES.ORDER_CONFIRMED,
                 OrderConfirmedDataSchema(Get(v, "data"), <<"data">>), v)

OrderShippedDataSchema(v, path) ==
  IF v.k # "object" THEN ZResult({Issue(path, "invalid_type")}, v)
  ELSE ZResult(ZOptional(ZString(Get(v, "trackingNumber"), Append(path, "trackingNumber")),
                         Get(v, "trackingNumber"))
                 \cup ZOptional(ZString(Get(v, "carrier"), Append(path, "carrier")),
                                Get(v, "carrier"))
                 \cup ZOptional(ZDatetime(Get(v, "estimatedDelivery"),
                                          Append(path, "estimatedDelivery")),
                                Get(v, "estimatedDelivery")),
               StripData(v, {"trackingNumber", "carrier", "estimatedDelivery"}, path))

OrderShippedSchema(v) ==
  ExtendedSchema(EVENT_TYPES.ORDER_SHIPPED,
                 OrderShippedDataSchema(Get(v, "data"), <<"data">>), v)

OrderCancelledDataSchema(v, path) ==
  IF v.k # "object" THEN ZResult({Issue(path, "invalid_type")}, v)
  ELSE ZResult(ZString(Get(v, "reason"), Append(path, "reason"))
                 \cup ZEnum({"user", "system", "admin"}, Get(v, "cancelledBy"),
                            Append(path, "cancelledBy"))
                 \cup ZOptional(ZNonNegative(Get(v, "refundAmount"),
                                             Append(path, "refundAmount")),
                                Get(v, "refundAmount")),
               StripData(v, {"reason", "cancelledBy", "refundAmount"}, path))

OrderCancelledSchema(v) ==
  ExtendedSchema(EVENT_TYPES.ORDER_CANCELLED,
                 OrderCancelledDataSchema(Get(v, "data"), <<"data">>), v)

PaymentAuthorizedDataSchema(v, path) ==
  IF v.k # "object" THEN ZResult({Issue(path, "invalid_type")}, v)
  ELSE ZResult(ZStringMin1(Get(v, "transactionId"), Append(path, "transactionId"))
                 \cup ZPositive(Get(v, "amount"), Append(path, "amount"))
                 \cup ZStringMin1(Get(v, "currency"), Append(path, "currency")),
               StripData(v, {"transactionId", "amount", "currency"}, path))

PaymentAuthorizedSchema(v) ==
  ExtendedSchema(PAYMENT_EVENT_TYPES.PAYMENT_AUTHORIZED,
                 PaymentAuthorizedDataSchema(Get(v, "data"), <<"data">>), v)

PaymentFailedDataSchema(v, path) ==
  IF v.k # "object" THEN ZResult({Issue(path, "invalid_type")}, v)
  ELSE ZResult(ZStringMin1(Get(v, "reason"), Append(path, "reason"))
                 \cup ZBoolean(Get(v, "retryable"), Append(path, "retryable")),
               StripData(v, {"reason", "retryable"}, path))

\* the literal of the other payment schema
PaymentFailedSchemaWrongLiteral(v) ==
  ExtendedSchema(PAYMENT_EVENT_TYPES.PAYMENT_AUTHORIZED,
                 PaymentFailedDataSchema(Get(v, "data"), <<"data">>), v)

PaymentFailedSchema(v) ==
  ExtendedSchema(PAYMENT_EVENT_TYPES.PAYMENT_FAILED,
                 PaymentFailedDataSchema(Get(v, "data"), <<"data">>), v)

\* the exported schema of each tag
SchemaOf(tag, v) ==
  CASE tag = EVENT_TYPES.ORDER_CREATED -> OrderCreatedSchema(v)
    [] tag = EVENT_TYPES.ORDER_CONFIRMED -> OrderConfirmedSchema(v)
    [] tag = EVENT_TYPES.ORDER_SHIPPED -> OrderShippedSchema(v)
    [] tag = EVENT_TYPES.ORDER_CANCELLED -> OrderCancelledSchema(v)
    [] tag = PAYMENT_EVENT_TYPES.PAYMENT_AUTHORIZED -> PaymentAuthorizedSchema(v)
    [] tag = PAYMENT_EVENT_TYPES.PAYMENT_FAILED -> PaymentFailedSchema(v)

\* a parse that stops at the first issue it finds
parseAbortEarly(r) ==
  IF r.issues = {} THEN Return(r.value)
  ELSE Throw(ZodError({CHOOSE issue \in r.issues : TRUE}))

\* a parse that hands back the value whatever the issues
parseIgnoringIssues(r) == Return(r.value)

\* schema.parse(v): the parsed value, or a thrown ZodError with every issue
parse(r) == IF r.issues = {} THEN Return(r.value) ELSE Throw(ZodError(r.issues))

(***************************************************************************)
(* validateEvent: the inbound validator.  A call gives its outcome and the *)
(* schemas it parsed the event with.                                       *)
(***************************************************************************)
Call(outcome, parsed) == [outcome |-> outcome, parsed |-> parsed]

\* a success that carries an error too
SuccessWithError(data) == [success |-> TRUE, data |-> data, error |-> Error("")]

Failure(error) == [success |-> FALSE, error |-> error]
Success(data) == [success |-> TRUE, data |-> data]

\* validatedEvent = Schema.parse(event); return {success: true, data: validatedEvent}
Validated(tag, r) ==
  LET p == parse(r)
  IN  Call(IF p.kind = "throw" THEN p ELSE Return(Success(p.value)), {tag})

\* the message without the tag
UnknownEventTypeMessageNoTag(type) == "Unknown event type"

\* `Unknown event type: ${type}`
UnknownEventTypeMessage(type) == "Unknown event type: " \o TemplateString(type).s

\* a guard that forgets null: typeof null is "object"
notAnObjectTypeofOnly(event) == typeof(event) # "object"

\* !event || typeof event !== 'object'
notAnObject(event) == Falsy(event) \/ typeof(event) # "object"

\* a body that parses an event without a type before it looks for the type
validateEventTrySchemaFirst(event) ==
  IF notAnObject(event)
  THEN Call(Return(Failure(Error("Event must be a non-null object"))), {})
  ELSE IF ~HasKey(event, "type")
  THEN Validated("order.created", OrderCreatedSchema(event))
  ELSE IF Falsy(Get(event, "type"))
  THEN Call(Return(Failure(Error("Event type is required"))), {})
  ELSE LET type == Get(event, "type")
       IN  CASE type = Str(EVENT_TYPES.ORDER_CREATED) ->
                  Validated(type.s, OrderCreatedSchema(event))
             [] type = Str(EVENT_TYPES.ORDER_CONFIRMED) ->
                  Validated(type.s, OrderConfirmedSchema(event))
             [] type = Str(EVENT_TYPES.ORDER_SHIPPED) ->
                  Validated(type.s, OrderShippedSchema(event))
             [] type = Str(EVENT_TYPES.ORDER_CANCELLED) ->
                  Validated(type.s, OrderCancelledSchema(event))
             [] type = Str(PAYMENT_EVENT_TYPES.PAYMENT_AUTHORIZED) ->
                  Validated(type.s, PaymentAuthorizedSchema(event))
             [] type = Str(PAYMENT_EVENT_TYPES.PAYMENT_FAILED) ->
                  Validated(type.s, PaymentFailedSchema(event))
             [] OTHER ->
                  Call(IF TemplateString(type).threw
                       THEN Throw(TypeError(TemplateString(type).message))
                       ELSE Return(Failure(Error(UnknownEventTypeMessage(type)))),
                       {})

\* the body of the try block
validateEventTry(event) ==
  IF notAnObject(event)
  THEN Call(Return(Failure(Error("Event must be a non-null object"))), {})
  ELSE IF ~HasKey(event, "type")
  THEN Call(Return(Failure(Error("Event type is required"))), {})
  ELSE IF Falsy(Get(event, "type"))
  THEN Call(Return(Failure(Error("Event type is required"))), {})
  ELSE LET type == Get(event, "type")
       IN  CASE type = Str(EVENT_TYPES.ORDER_CREATED) ->
                  Validated(type.s, OrderCreatedSchema(event))
             [] type = Str(EVENT_TYPES.ORDER_CONFIRMED) ->
                  Validated(type.s, OrderConfirmedSchema(event))
             [] type = Str(EVENT_TYPES.ORDER_SHIPPED) ->
                  Validated(type.s, OrderShippedSchema(event))
             [] type = Str(EVENT_TYPES.ORDER_CANCELLED) ->
                  Validated(type.s, OrderCancelledSchema(event))
             [] type = Str(PAYMENT_EVENT_TYPES.PAYMENT_AUTHORIZED) ->
                  Validated(type.s, PaymentAuthorizedSchema(event))
             [] type = Str(PAYMENT_EVENT_TYPES.PAYMENT_FAILED) ->
                  Validated(type.s, PaymentFailedSchema(event))
             [] OTHER ->
                  Call(IF TemplateString(type).threw
                       THEN Throw(TypeError(TemplateString(type).message))
                       ELSE Return(Failure(Error(UnknownEventTypeMessage(type)))),
                       {})

\* no catch: what the try block throws leaves validateEvent
validateEventCatchMissing(c) == c

\* error instanceof Error: the errors are the records with a name, the other
\* values that may be thrown are values of the program
InstanceofError(x) == "name" \in DOMAIN x

\* catch (error): error instanceof Error ? error : new Error('Validation failed')
validateEventCatch(c) ==
  IF c.outcome.kind = "throw"
  THEN Call(Return(Failure(IF InstanceofError(c.outcome.error) THEN c.outcome.error
                           ELSE Error("Validation failed"))),
            c.parsed)
  ELSE c

validateEvent(event) == validateEventCatch(validateEventTry(event))

\* the body of the try block of the four-type release: !event.type, and a switch
\* over the four order tags
validateEventTryLegacy(event) ==
  IF notAnObject(event)
  THEN Call(Return(Failure(Error("Event must be a non-null object"))), {})
  ELSE IF Falsy(Get(event, "type"))
  THEN Call(Return(Failure(Error("Event type is required"))), {})
  ELSE LET type == Get(event, "type")
       IN  CASE type = Str(EVENT_TYPES.ORDER_CREATED) ->
                  Validated(type.s, OrderCreatedSchema(event))
             [] type = Str(EVENT_TYPES.ORDER_CONFIRMED) ->
                  Validated(type.s, OrderConfirmedSchema(event))
             [] type = Str(EVENT_TYPES.ORDER_SHIPPED) ->
                  Validated(type.s, OrderShippedSchema(event))
             [] type = Str(EVENT_TYPES.ORDER_CANCELLED) ->
                  Validated(type.s, OrderCancelledSchema(event))
             [] OTHER ->
                  Call(IF TemplateString(type).threw
                       THEN Throw(TypeError(TemplateString(type).message))
                       ELSE Return(Failure(Error(UnknownEventTypeMessage(type)))),
                       {})

\* validateEvent of the four-type release
validateEventLegacy(event) == validateEventCatch(validateEventTryLegacy(event))

(***************************************************************************)
(* The factories.  randomUUID() and new Date().toISOString() are evaluated *)
(* only when the left operand does not decide the result; a factory call   *)
(* says whether it drew a UUID.                                            *)
(***************************************************************************)
\* the right operand whatever the left one is
CoalesceAlways(a, b) == b

\* a ?? b
Coalesce(a, b) == IF Nullish(a) THEN b ELSE a

\* a || b
OrElse(a, b) == IF Falsy(a) THEN b ELSE a

\* a candidate whose correlationId is one value made once, not one per call
baseEventFixedUuid(type, params, uuid, iso) ==
  Obj([type |-> type,
       orderId |-> Get(params, "orderId"),
       userId |-> Get(params, "userId"),
       correlationId |-> IF Nullish(Get(params, "correlationId")) THEN Str(Uuid1)
                         ELSE Get(params, "correlationId"),
       timestamp |-> IF Nullish(Get(params, "timestamp")) THEN Str(iso)
                     ELSE Get(params, "timestamp"),
       data |-> Get(params, "data")])

\* const baseEvent = {type, orderId, userId, correlationId: correlationId ??
\* randomUUID(), timestamp: timestamp ?? new Date().toISOString(), data}
baseEvent(type, params, uuid, iso) ==
  Obj([type |-> type,
       orderId |-> Get(params, "orderId"),
       userId |-> Get(params, "userId"),
       correlationId |-> Coalesce(Get(params, "correlationId"), Str(uuid)),
       timestamp |-> Coalesce(Get(params, "timestamp"), Str(iso)),
       data |-> Get(params, "data")])

\* the same with correlationId || randomUUID() and timestamp || new Date().toISOString()
baseEventLegacy(type, params, uuid, iso) ==
  Obj([type |-> type,
       orderId |-> Get(params, "orderId"),
       userId |-> Get(params, "userId"),
       correlationId |-> OrElse(Get(params, "correlationId"), Str(uuid)),
       timestamp |-> OrElse(Get(params, "timestamp"), Str(iso)),
       data |-> Get(params, "data")])

\* throw new Error(`Unknown event type: ${type}`)
ThrowUnknownEventType(type) ==
  IF TemplateString(type).threw
  THEN Throw(TypeError(TemplateString(type).message))
  ELSE Throw(Error(UnknownEventTypeMessage(type)))

\* a switch whose order.confirmed case uses the schema of the case above
orderSwitchCopiedCase(type, candidate) ==
  CASE type = Str(EVENT_TYPES.ORDER_CREATED) -> parse(OrderCreatedSchema(candidate))
    [] type = Str(EVENT_TYPES.ORDER_CONFIRMED) -> parse(OrderCreatedSchema(candidate))
    [] type = Str(EVENT_TYPES.ORDER_SHIPPED) -> parse(OrderShippedSchema(candidate))
    [] type = Str(EVENT_TYPES.ORDER_CANCELLED) -> parse(OrderCancelledSchema(candidate))
    [] OTHER -> ThrowUnknownEventType(type)

\* the switch of createOrderEvent over the candidate
orderSwitch(type, candidate) ==
  CASE type = Str(EVENT_TYPES.ORDER_CREATED) -> parse(OrderCreatedSchema(candidate))
    [] type = Str(EVENT_TYPES.ORDER_CONFIRMED) -> parse(OrderConfirmedSchema(candidate))
    [] type = Str(EVENT_TYPES.ORDER_SHIPPED) -> parse(OrderShippedSchema(candidate))
    [] type = Str(EVENT_TYPES.ORDER_CANCELLED) -> parse(OrderCancelledSchema(candidate))
    [] OTHER -> ThrowUnknownEventType(type)

\* the switch of createPaymentEvent over the candidate
paymentSwitch(type, candidate) ==
  CASE type = Str(PAYMENT_EVENT_TYPES.PAYMENT_AUTHORIZED) ->
         parse(PaymentAuthorizedSchema(candidate))
    [] type = Str(PAYMENT_EVENT_TYPES.PAYMENT_FAILED) ->
         parse(PaymentFailedSchema(candidate))
    [] OTHER -> ThrowUnknownEventType(type)

\* no candidate: the call ended before baseEvent was built
NoCandidate == [k |-> "none"]

\* const {orderId, userId, data, correlationId, timestamp} = params: reading a
\* property of undefined or null throws, a property of any other value is read
\* (as undefined when the value has none)
DestructureError(params) ==
  TypeError("Cannot destructure property 'orderId' of 'params' as it is "
            \o (IF params.k = "null" THEN "null" ELSE "undefined") \o ".")

\* a factory call that threw on its first line: nothing was assembled, and
\* neither randomUUID() nor the clock was reached
NotMade(params) ==
  [outcome |-> Throw(DestructureError(params)), candidate |-> NoCandidate,
   drewUuid |-> FALSE, readClock |-> FALSE]

\* what a factory call gives: its outcome, the candidate it assembled, and whether
\* the candidate carries the value of randomUUID() and of the clock
Made(outcome, candidate, params, uuid, iso) ==
  [outcome |-> outcome, candidate |-> candidate,
   drewUuid |-> /\ Get(candidate, "correlationId") = Str(uuid)
                /\ Get(params, "correlationId") # Str(uuid),
   readClock |-> /\ Get(candidate, "timestamp") = Str(iso)
                 /\ Get(params, "timestamp") # Str(iso)]

createOrderEvent(type, params, uuid, iso) ==
  IF Nullish(params) THEN NotMade(params)
  ELSE Made(orderSwitch(type, baseEvent(type, params, uuid, iso)),
            baseEvent(type, params, uuid, iso), params, uuid, iso)

createPaymentEvent(type, params, uuid, iso) ==
  IF Nullish(params) THEN NotMade(params)
  ELSE Made(paymentSwitch(type, baseEvent(type, params, uuid, iso)),
            baseEvent(type, params, uuid, iso), params, uuid, iso)

\* createOrderEvent as the four-type release has it
createOrderEventLegacy(type, params, uuid, iso) ==
  IF Nullish(params) THEN NotMade(params)
  ELSE Made(orderSwitch(type, baseEventLegacy(type, params, uuid, iso)),
            baseEventLegacy(type, params, uuid, iso), params, uuid, iso)

(***************************************************************************)
(* The environment: the random source and the clock.                      *)
(***************************************************************************)
\* randomUUID() gives one of the version-4 UUIDs of UuidList, each once
GeneratedUuids ==
  {UuidList[i] : i \in 1..(IF MaxUuids < Len(UuidList) THEN MaxUuids ELSE Len(UuidList))}

(***************************************************************************)
(* The values the calls are made with.                                     *)
(***************************************************************************)
OrderTags ==
  {EVENT_TYPES.ORDER_CREATED, EVENT_TYPES.ORDER_CONFIRMED, EVENT_TYPES.ORDER_SHIPPED,
   EVENT_TYPES.ORDER_CANCELLED}
PaymentTags ==
  {PAYMENT_EVENT_TYPES.PAYMENT_AUTHORIZED, PAYMENT_EVENT_TYPES.PAYMENT_FAILED}
Tags == OrderTags \cup PaymentTags

Item1 == Obj([productId |-> Num(1), quantity |-> Num(2), price |-> Rat(1999, 100)])

\* the required fields of each payload, valid
ValidData(tag) ==
  CASE tag \in {"order.created", "order.confirmed"} ->
         Obj([items |-> Arr(<<Item1>>), totalAmount |-> Rat(3998, 100)])
    [] tag = "order.shipped" -> Obj(<<>>)
    [] tag = "order.cancelled" ->
         Obj([reason |-> Str("Customer requested cancellation"),
              cancelledBy |-> Str("user")])
    [] tag = "payment.authorized" ->
         Obj([transactionId |-> Str("txn_123"), amount |-> Rat(9999, 100),
              currency |-> Str("USD")])
    [] tag = "payment.failed" ->
         Obj([reason |-> Str("Insufficient funds"), retryable |-> Bool(TRUE)])
    [] OTHER -> Obj(<<>>)

\* the keys of each payload's shape, the optional ones too
DataKeys(tag) ==
  CASE tag = "order.created" -> {"items", "totalAmount", "shippingAddress"}
    [] tag = "order.confirmed" -> {"items", "totalAmount", "paymentId"}
    [] tag = "order.shipped" -> {"trackingNumber", "carrier", "estimatedDelivery"}
    [] tag = "order.cancelled" -> {"reason", "cancelledBy", "refundAmount"}
    [] tag = "payment.authorized" -> {"transactionId", "amount", "currency"}
    [] tag = "payment.failed" -> {"reason", "retryable"}
    [] OTHER -> {}

\* a minimally valid event: the required fields, no optional one
ValidEvent(tag) ==
  Obj([type |-> Str(tag), orderId |-> Num(1), userId |-> Num(100),
       correlationId |-> Str(Uuid1), timestamp |-> Str(Ts1), data |-> ValidData(tag)])

EventKeys == BaseKeys \cup {"data"}

\* the values a field is replaced by
FieldValues ==
  {Undefined, Null, Num(0), Num(-1), Rat(3, 2), Num(7), Infinity, NegInfinity, NaN,
   Str(""), Str("invalid"), Str("admin"), Str("system"), Str("User"), Bool(FALSE),
   Arr(<<>>), Obj(<<>>)}

\* the values the type field is replaced by
TypeValues ==
  {Str(t) : t \in Tags} \cup
  {Str("unknown.event"), Str("bogus.tag"), Str("__proto__"), Num(42), Symbol,
   Arr(<<Str("order.created")>>), Arr(<<Num(1), Num(2)>>), Arr(<<Null, Symbol>>),
   Obj([toString |-> Num(1)])}

\* an event with one top-level field removed or replaced, or one added
TopMutations(e) ==
  {Obj(Remove(e.o, key)) : key \in EventKeys}
    \cup {Obj(Put(e.o, key, v)) : key \in EventKeys \cup {"extra"}, v \in FieldValues}
    \cup {Obj(Put(e.o, "type", v)) : v \in TypeValues}

\* an event with one payload field removed or replaced, or one added
DataMutations(tag, e) ==
  {Obj(Put(e.o, "data", Obj(Remove(e.o["data"].o, key)))) : key \in DOMAIN e.o["data"].o}
    \cup {Obj(Put(e.o, "data", Obj(Put(e.o["data"].o, key, v)))) :
            key \in DataKeys(tag) \cup {"extra"}, v \in FieldValues}

Item2 == Obj([productId |-> Num(2), quantity |-> Num(1), price |-> Rat(1, 2)])

\* Item1 with one field replaced by a value its schema rejects
BadItems ==
  {Obj(Put(Item1.o, key, v)) : key \in {"productId", "quantity"},
                               v \in {Num(0), Num(-1), Rat(3, 2)}}
    \cup {Obj(Put(Item1.o, "price", v)) : v \in {Num(0), Num(-1)}}

\* the lists of 1 to MaxItems valid items
ValidItemLists == UNION {[1..n -> {Item1, Item2}] : n \in 1..MaxItems}

\* the lists of valid items with the item at one position replaced by a bad one
OneBadItemLists ==
  UNION {{[l EXCEPT ![i] = bad] : i \in 1..n, bad \in BadItems, l \in {[j \in 1..n |-> Item1]}} :
           n \in 1..MaxItems}

\* a valid order.created or order.confirmed event with its items replaced
ItemsEvents(tag) ==
  {Obj(Put(ValidEvent(tag).o, "data",
           Obj(Put(ValidData(tag).o, "items", Arr(l))))) :
     l \in ValidItemLists \cup OneBadItemLists}

\* strings given as correlationId: UUIDs of version 1, 3 and 5, the nil UUID, a
\* version 4 UUID in upper case, one with a variant outside RFC 4122, and strings
\* that are no UUID
CorrelationIds ==
  {"6ba7b810-9dad-11d1-80b4-00c04fd430c8", "6fa459ea-ee8a-3ca4-894e-db77e160355e",
   "886313e1-3b8a-5372-9b90-0c9aee199e5d", "00000000-0000-0000-0000-000000000000",
   "F47AC10B-58CC-4372-A567-0E02B2C3D479", "f47ac10b-58cc-4372-c567-0e02b2c3d479",
   "not-a-uuid", "f47ac10b58cc4372a5670e02b2c3d479",
   "f47ac10b-58cc-4372-a567-0e02b2c3d47", "g47ac10b-58cc-4372-a567-0e02b2c3d479",
   "{f47ac10b-58cc-4372-a567-0e02b2c3d479}"}

\* strings given as timestamp: days and times that exist and that do not, with
\* and without seconds and fraction, and forms without T or Z
Timestamps ==
  {"2026-01-01T00:00:00Z", "2026-01-01T00:00Z", "2026-01-01T23:59:59.1Z",
   "2024-02-29T00:00:00Z", "2023-02-29T00:00:00Z", "2026-02-30T00:00:00Z",
   "2026-13-01T00:00:00Z", "2026-00-10T00:00:00Z", "2026-01-01T24:00:00Z",
   "2026-01-01T23:60:00Z", "2026-01-01T23:59:60Z", "2026-01-01T00:00:00.Z",
   "2026-01-01 00:00:00Z", "2026-01-01T00:00:00", "2026-01-01T00:00:00+01:00",
   "2026-01-01", "not-a-date"}

\* a valid event of each tag with its timestamp replaced
TimestampEvents ==
  {Obj(Put(ValidEvent(t).o, "timestamp", Str(c))) : t \in Tags, c \in Timestamps}

\* a valid event of each tag with its correlationId replaced
CorrelationIdEvents ==
  {Obj(Put(ValidEvent(t).o, "correlationId", Str(c))) : t \in Tags, c \in CorrelationIds}

\* single violations of a field rule: the path of the field and the value it is
\* given, for the fields every event has and for the payload of each tag
FieldViolations(tag) ==
  {<<<<"orderId">>, Num(0)>>, <<<<"userId">>, Rat(3, 2)>>,
   <<<<"correlationId">>, Str("invalid")>>, <<<<"timestamp">>, Str("")>>}
    \cup (CASE tag \in {"order.created", "order.confirmed"} ->
                {<<<<"data", "items">>, Arr(<<>>)>>, <<<<"data", "totalAmount">>, Num(-1)>>}
             [] tag = "order.shipped" ->
                {<<<<"data", "estimatedDelivery">>, Str("invalid")>>,
                 <<<<"data", "carrier">>, Num(7)>>}
             [] tag = "order.cancelled" ->
                {<<<<"data", "cancelledBy">>, Str("invalid")>>,
                 <<<<"data", "refundAmount">>, Num(-1)>>}
             [] tag = "payment.authorized" ->
                {<<<<"data", "amount">>, Num(0)>>, <<<<"data", "currency">>, Str("")>>}
             [] tag = "payment.failed" ->
                {<<<<"data", "reason">>, Str("")>>, <<<<"data", "retryable">>, Str("invalid")>>})

\* the valid event of a tag with each field of a set of violations replaced
WithViolations(tag, vs) ==
  LET top == [x \in EventKeys |->
                IF \E v \in vs : v[1] = <<x>>
                THEN (CHOOSE v \in vs : v[1] = <<x>>)[2]
                ELSE ValidEvent(tag).o[x]]
      d == ValidData(tag).o
      keys == (DOMAIN d) \cup {v[1][2] : v \in {w \in vs : Len(w[1]) = 2}}
  IN  Obj(Put(top, "data",
              Obj([x \in keys |->
                     IF \E v \in vs : v[1] = <<"data", x>>
                     THEN (CHOOSE v \in vs : v[1] = <<"data", x>>)[2]
                     ELSE d[x]])))

\* the events with two or more violations, each with the paths of its violations
MultiViolationCases ==
  UNION {{[event |-> WithViolations(t, vs), paths |-> {v[1] : v \in vs}] :
            vs \in {x \in SUBSET FieldViolations(t) : Cardinality(x) >= 2}} : t \in Tags}

\* events with two or more field violations whose type is missing, null, empty
\* or unknown
EnvelopeCases ==
  UNION {{Obj(Remove(c.event.o, "type"))}
           \cup {Obj(Put(c.event.o, "type", v)) :
                   v \in {Null, Str(""), Str("unknown.event")}} :
         c \in {x \in MultiViolationCases :
                  Get(x.event, "type") \in {Str("order.created"), Str("payment.failed")}}}

\* a valid payload that carries a property its schema does not declare, in the
\* payload and in an item
ExtraData(type) ==
  LET d == ValidData(type.s).o
      e == Put(d, "note", Str("gift"))
  IN  Obj(IF "items" \in DOMAIN d
          THEN Put(e, "items", Arr(<<Obj(Put(Item1.o, "sku", Str("A-1")))>>))
          ELSE e)

\* a valid event of each tag with unknown fields in the payload and its items,
\* and one with an unknown top-level field too
ExtraEvents ==
  UNION {{Obj(Put(ValidEvent(t).o, "data", ExtraData(Str(t)))),
          Obj(Put(Put(ValidEvent(t).o, "data", ExtraData(Str(t))), "traceId", Str("t-1")))} :
         t \in Tags}

\* values that are no events at all
NonEvents ==
  {Undefined, Null, Num(42), Num(0), Str(""), Str("order.created"), Bool(TRUE),
   Bool(FALSE), Symbol, Arr(<<>>), Arr(<<Str("order.created")>>), Obj(<<>>),
   Obj([orderId |-> Num(1), userId |-> Num(100)])}

\* the values validateEvent is called with
Inputs ==
  NonEvents
    \cup UNION {{ValidEvent(t)} \cup TopMutations(ValidEvent(t))
                  \cup DataMutations(t, ValidEvent(t)) : t \in Tags}
    \cup ItemsEvents(EVENT_TYPES.ORDER_CREATED)
    \cup ItemsEvents(EVENT_TYPES.ORDER_CONFIRMED)
    \cup CorrelationIdEvents
    \cup TimestampEvents
    \cup EnvelopeCases
    \cup ExtraEvents

\* the candidate events a producer may assemble and a consumer may receive: the
\* objects of Inputs and the events with several violations
Candidates ==
  {e \in Inputs : e.k = "object"} \cup {c.event : c \in MultiViolationCases}

\* the parameters a producer passes to a factory to have the candidate made
ParamsOf(e) ==
  Obj([x \in (DOMAIN e.o) \cap {"orderId", "userId", "correlationId", "timestamp", "data"} |->
         e.o[x]])

\* the type tags a factory is called with
FactoryTypes == {Str(t) : t \in Tags} \cup {Str("unknown.event")}

\* an invalid payload for the type
BadData(type) ==
  IF type.s \in {"order.created", "order.confirmed"}
  THEN Obj([items |-> Arr(<<>>), totalAmount |-> Num(10)])
  ELSE Obj([amount |-> Num(-100), estimatedDelivery |-> Str("soon")])

\* a payload the schema accepts whose amount is Infinity, for the types that
\* have an amount
InfiniteData(type) ==
  LET d == ValidData(type.s).o
  IN  CASE type.s \in {"order.created", "order.confirmed"} ->
             Obj(Put(d, "totalAmount", Infinity))
        [] type.s = "order.cancelled" -> Obj(Put(d, "refundAmount", Infinity))
        [] type.s = "payment.authorized" -> Obj(Put(d, "amount", Infinity))
        [] OTHER -> Obj(d)

\* the parameters a factory is called with for a type of its family: valid ones
\* with and without correlationId and timestamp, ones with an empty or null
\* correlationId or timestamp, and invalid ones
ParamsFor(type) ==
  LET valid == [orderId |-> Num(1), userId |-> Num(100), data |-> ValidData(type.s)]
  IN  {Obj(valid),
       Obj(valid @@ [correlationId |-> Str(Uuid1), timestamp |-> Str(Ts1)]),
       Obj(valid @@ [correlationId |-> Str(Uuid1)]),
       Obj(valid @@ [timestamp |-> Str(Ts1)]),
       Obj(valid @@ [correlationId |-> Str("")]),
       Obj(valid @@ [timestamp |-> Str("")]),
       Obj(valid @@ [correlationId |-> Null, timestamp |-> Null]),
       Obj([orderId |-> Num(0), userId |-> Num(100), data |-> ValidData(type.s)]),
       Obj([orderId |-> Num(1), userId |-> Num(100), data |-> BadData(type)]),
       Obj([orderId |-> Num(1), userId |-> Num(100), data |-> ExtraData(type)]),
       Obj([orderId |-> Num(1), userId |-> Num(100), data |-> InfiniteData(type)])}

\* the parameters a factory is called with for a type of another family or of
\* none: valid ones and invalid ones
ParamsForOther(type) ==
  {Obj([orderId |-> Num(1), userId |-> Num(100), data |-> ValidData(type.s)]),
   Obj([orderId |-> Num(1), userId |-> Num(100), data |-> ValidData(type.s),
        correlationId |-> Str(Uuid1), timestamp |-> Str(Ts1)]),
   Obj([orderId |-> Num(0), userId |-> Num(100), data |-> BadData(type),
        correlationId |-> Str("")])}

\* the parameters the four-type createOrderEvent is called with
ParamsForLegacy(type) ==
  LET valid == [orderId |-> Num(1), userId |-> Num(100), data |-> ValidData(type.s)]
  IN  {Obj(valid),
       Obj(valid @@ [correlationId |-> Str(Uuid1), timestamp |-> Str(Ts1)]),
       Obj(valid @@ [correlationId |-> Str("")]),
       Obj(valid @@ [timestamp |-> Str("")]),
       Obj([orderId |-> Num(1), userId |-> Num(100), data |-> BadData(type)])}

\* a call that passes no parameter object, or null for it
NoParams == {Undefined, Null}

\* what a caller may pass as params that is not an object
NonObjectParams == NoParams \cup {Num(7), Str("params"), Arr(<<>>)}

OrderCalls ==
  UNION {{<<Str(t), p>> : p \in ParamsFor(Str(t))} : t \in OrderTags}
    \cup UNION {{<<type, p>> : p \in ParamsForOther(type)} :
                  type \in FactoryTypes \ {Str(t) : t \in OrderTags}}
    \cup (FactoryTypes \X NoParams)
    \cup ({Str("order.created"), Str("unknown.event")} \X NonObjectParams)

PaymentCalls ==
  UNION {{<<Str(t), p>> : p \in ParamsFor(Str(t))} : t \in PaymentTags}
    \cup UNION {{<<type, p>> : p \in ParamsForOther(type)} :
                  type \in FactoryTypes \ {Str(t) : t \in PaymentTags}}
    \cup (FactoryTypes \X NoParams)
    \cup ({Str("payment.failed"), Str("unknown.event")} \X NonObjectParams)

LegacyCalls ==
  UNION {{<<Str(t), p>> : p \in ParamsForLegacy(Str(t))} : t \in OrderTags}
    \cup {<<Str("unknown.event"), p>> : p \in ParamsForOther(Str("unknown.event"))}
    \cup (({Str(t) : t \in OrderTags} \cup {Str("unknown.event")}) \X NoParams)

(***************************************************************************)
(* The state machine: one action per exported operation, and the clock.    *)
(***************************************************************************)
Init ==
  /\ input = Undefined
  /\ last = [op |-> "none"]
  /\ issued = {}
  /\ now = 0
  /\ generated = EmptyBag

\* the event the last factory call returned, which the producer publishes
Sent ==
  IF last.op \in {"createOrderEvent", "createPaymentEvent", "createOrderEventLegacy"}
     /\ last.outcome.kind = "return"
  THEN last.outcome.value ELSE Undefined

\* a consumer calls validateEvent with an event; sent is the event the producer
\* made it from, if any
ValidateEvent(event) ==
  /\ LET c == validateEvent(event)
     IN  last' = [op |-> "validateEvent", arg |-> event, outcome |-> c.outcome,
                  parsed |-> c.parsed, sent |-> Sent]
  /\ UNCHANGED <<input, issued, now, generated>>

\* a consumer calls validateEvent with the data validateEvent has just returned;
\* first is the result of the call before
ValidateAgain ==
  /\ last.op = "validateEvent"
  /\ last.outcome.value.success
  /\ LET c == validateEvent(last.outcome.value.data)
     IN  last' = [op |-> "validateEvent", arg |-> last.outcome.value.data,
                  outcome |-> c.outcome, parsed |-> c.parsed, sent |-> Undefined,
                  first |-> last.outcome.value]
  /\ UNCHANGED <<input, issued, now, generated>>

\* a consumer of the four-type release calls its validateEvent with an event
ValidateEventLegacy(event) ==
  /\ LET c == validateEventLegacy(event)
     IN  last' = [op |-> "validateEventLegacy", arg |-> event, outcome |-> c.outcome,
                  parsed |-> c.parsed, sent |-> Sent]
  /\ UNCHANGED <<input, issued, now, generated>>

\* a caller applies the exported schema of a tag to a value: Schema.parse(value)
SchemaParse(tag, value) ==
  /\ last' = [op |-> "parse", schema |-> tag, arg |-> value,
              outcome |-> parse(SchemaOf(tag, value))]
  /\ UNCHANGED <<input, issued, now, generated>>

\* a caller applies the exported BaseEventSchema, of the six-type or of the
\* four-type release, to a value
BaseParse(value) ==
  /\ \E release \in {"six", "four"} :
       last' = [op |-> "parseBase", release |-> release, arg |-> value,
                outcome |-> parse(IF release = "six" THEN BaseEventSchema(value)
                                  ELSE BaseEventSchemaLegacy(value))]
  /\ UNCHANGED <<input, issued, now, generated>>

\* what randomUUID() may give next; when the values of the model are used up,
\* NoUuid, and then only the calls that draw nothing are made
NoUuid == "none"
NextUuids == IF GeneratedUuids \ issued = {} THEN {NoUuid} ELSE GeneratedUuids \ issued

\* a factory call: the result, the UUID taken from the random source and the
\* correlationId of an event returned to a caller that passed none
Factory(op, type, params, uuid, made) ==
  /\ made.drewUuid => uuid # NoUuid
  /\ last' = [op |-> op, type |-> type, arg |-> params, outcome |-> made.outcome,
              candidate |-> made.candidate,
              uuid |-> IF made.drewUuid THEN uuid ELSE "",
              iso |-> IF made.readClock THEN toISOString(now) ELSE ""]
  /\ issued' = IF made.drewUuid THEN issued \cup {uuid} ELSE issued
  /\ generated' =
       IF made.outcome.kind = "return" /\ Get(params, "correlationId") = Undefined
       THEN generated (+) SetToBag({Get(made.outcome.value, "correlationId")})
       ELSE generated
  /\ UNCHANGED <<input, now>>

CreateOrderEvent(type, params) ==
  \E uuid \in NextUuids :
    \E made \in {createOrderEvent(type, params, uuid, toISOString(now))} :
      Factory("createOrderEvent", type, params, uuid, made)

CreatePaymentEvent(type, params) ==
  \E uuid \in NextUuids :
    \E made \in {createPaymentEvent(type, params, uuid, toISOString(now))} :
      Factory("createPaymentEvent", type, params, uuid, made)

CreateOrderEventLegacy(type, params) ==
  \E uuid \in NextUuids :
    \E made \in {createOrderEventLegacy(type, params, uuid, toISOString(now))} :
      Factory("createOrderEventLegacy", type, params, uuid, made)

\* time passes
Tick ==
  /\ now < MaxClock
  /\ now' = now + 1
  /\ UNCHANGED <<input, last, issued, generated>>

\* what a consumer receives: the event the last factory call returned, as
\* JSON.parse gives it back from the message, or else the input
Received == IF Sent # Undefined THEN JsonValue(Sent) ELSE input

Next ==
  \/ ValidateEvent(Received)
  \/ \E call \in OrderCalls : CreateOrderEvent(call[1], call[2])
  \/ \E call \in PaymentCalls : CreatePaymentEvent(call[1], call[2])
  \/ \E call \in LegacyCalls : CreateOrderEventLegacy(call[1], call[2])
  \/ Tick

Spec == Init /\ [][Next]_vars

\* the inbound validator alone, applied to every input
InitValidate ==
  /\ input \in Inputs
  /\ last = [op |-> "none"]
  /\ issued = {}
  /\ now = 0
  /\ generated = EmptyBag

NextValidate ==
  \/ ValidateEvent(input)
  \/ ValidateAgain
  \/ ValidateEventLegacy(input)
  \/ BaseParse(input)
  \/ \E tag \in Tags : SchemaParse(tag, input)

SpecValidate == InitValidate /\ [][NextValidate]_vars

\* the factories and the inbound validator applied to the same candidate
InitCandidate ==
  /\ input \in Candidates
  /\ last = [op |-> "none"]
  /\ issued = {}
  /\ now = 0
  /\ generated = EmptyBag

\* the parameters a factory is called with for a candidate: the candidate's
\* fields, or none at all
CandidateParams == {ParamsOf(input)} \cup NoParams

NextCandidate ==
  \/ ValidateEvent(input)
  \/ \E params \in CandidateParams : CreateOrderEvent(Get(input, "type"), params)
  \/ \E params \in CandidateParams : CreatePaymentEvent(Get(input, "type"), params)
  \/ \E params \in CandidateParams : CreateOrderEventLegacy(Get(input, "type"), params)

SpecCandidate == InitCandidate /\ [][NextCandidate]_vars

(***************************************************************************)
(* The claims.                                                             *)
(***************************************************************************)
SixTags ==
  {"order.created", "order.confirmed", "order.shipped", "order.cancelled",
   "payment.authorized", "payment.failed"}

Validated1 == last.op = "validateEvent"

FactoryOps == {"createOrderEvent", "createPaymentEvent", "createOrderEventLegacy"}

\* C1: validateEvent never throws: whatever the value, the call returns a result
\* whose success flag is a boolean.
C1_NeverThrows ==
  Validated1 =>
    /\ last.outcome.kind = "return"
    /\ last.outcome.value.success \in BOOLEAN

\* an event whose type is a symbol: building the message throws a TypeError
\* inside the try block, and the call still returns a failure
C1_Witness ==
  /\ Validated1
  /\ last.arg = Obj(Put(ValidEvent("order.created").o, "type", Symbol))
  /\ last.outcome.kind = "return"
  /\ ~last.outcome.value.success
  /\ last.outcome.value.error.name = "TypeError"

\* C2: a result is a discriminated union: a success has data and no error, a
\* failure has an error and no data.
C2_DiscriminatedUnion ==
  (Validated1 /\ last.outcome.kind = "return") =>
    LET r == last.outcome.value
    IN  /\ r.success => (DOMAIN r = {"success", "data"} /\ r.data.k = "object")
        /\ ~r.success =>
             (DOMAIN r = {"success", "error"}
              /\ r.error.name \in {"Error", "TypeError", "ZodError"})

C2_Witness ==
  /\ Validated1
  /\ last.arg = ValidEvent("order.shipped")
  /\ last.outcome.value.success
  /\ "data" \in DOMAIN last.outcome.value

\* C3: a minimally valid event of each of the six tags is accepted, and the
\* returned data has the tag as its type.
C3_MinimalValidAccepted ==
  \A t \in SixTags :
    (Validated1 /\ last.arg = ValidEvent(t)) =>
      /\ last.outcome.kind = "return"
      /\ last.outcome.value.success
      /\ Get(last.outcome.value.data, "type") = Str(t)

C3_Witness ==
  /\ Validated1
  /\ last.arg = ValidEvent("payment.failed")
  /\ DOMAIN last.arg.o["data"].o = {"reason", "retryable"}
  /\ last.outcome.value.success
  /\ Get(last.outcome.value.data, "type") = Str("payment.failed")

\* C4: null, undefined and every value that is not an object give the failure
\* "Event must be a non-null object", and no schema is consulted.
C4_NonObjectRejected ==
  (Validated1 /\ last.arg.k \notin {"object", "array"}) =>
    /\ last.outcome.kind = "return"
    /\ ~last.outcome.value.success
    /\ last.outcome.value.error = Error("Event must be a non-null object")
    /\ last.parsed = {}

C4_Witness ==
  /\ Validated1
  /\ last.arg = Null
  /\ last.outcome.value.error.message = "Event must be a non-null object"

\* C5: an object with no type property, or with a type that is null, undefined
\* or the empty string, gives the failure "Event type is required", which is not
\* the reason given for a value that is no object.
C5_TypeRequired ==
  (/\ Validated1
   /\ last.arg.k = "object"
   /\ \/ "type" \notin DOMAIN last.arg.o
      \/ last.arg.o["type"] \in {Null, Undefined, Str("")}) =>
    /\ last.outcome.kind = "return"
    /\ ~last.outcome.value.success
    /\ last.outcome.value.error = Error("Event type is required")
    /\ last.outcome.value.error # Error("Event must be a non-null object")
    /\ last.parsed = {}

C5_Witness ==
  /\ Validated1
  /\ last.arg = Obj(Put(ValidEvent("order.created").o, "type", Str("")))
  /\ last.outcome.value.error.message = "Event type is required"

\* C6: an object whose type is a non-empty string outside the six tags gives a
\* failure that names the tag; it is a plain Error, not a field violation, and no
\* schema is consulted.
C6_UnknownTypeNamed ==
  (/\ Validated1
   /\ last.arg.k = "object"
   /\ "type" \in DOMAIN last.arg.o
   /\ last.arg.o["type"].k = "string"
   /\ last.arg.o["type"].s \notin SixTags \cup {""}) =>
    /\ last.outcome.kind = "return"
    /\ ~last.outcome.value.success
    /\ last.outcome.value.error.name = "Error"
    /\ last.outcome.value.error.message
         = "Unknown event type: " \o last.arg.o["type"].s
    /\ last.parsed = {}

C6_Witness ==
  /\ Validated1
  /\ last.arg = Obj(Put(ValidEvent("order.created").o, "type", Str("bogus.tag")))
  /\ last.outcome.value.error.message = "Unknown event type: bogus.tag"

\* an otherwise valid order.cancelled event whose data.reason is ""
EmptyReasonEvent ==
  Obj(Put(ValidEvent("order.cancelled").o, "data",
          Obj([reason |-> Str(""), cancelledBy |-> Str("user")])))

\* C7: order.cancelled requires a non-empty reason: an otherwise valid
\* order.cancelled event with data.reason "" is rejected by OrderCancelledSchema
\* and by validateEvent.
C7_EmptyReasonRejected ==
  (Validated1 /\ last.arg = EmptyReasonEvent) =>
    /\ OrderCancelledSchema(last.arg).issues # {}
    /\ ~last.outcome.value.success

\* C8: an empty string given for correlationId or timestamp is kept in the
\* candidate and fails validation; no factory replaces it and returns an event.
C8_EmptyStringNotReplaced ==
  (/\ last.op \in FactoryOps
   /\ last.type.s \in SixTags
   /\ \/ Get(last.arg, "correlationId") = Str("")
      \/ Get(last.arg, "timestamp") = Str("")) =>
    /\ Get(last.candidate, "correlationId") = Str("")
         \/ Get(last.arg, "correlationId") # Str("")
    /\ Get(last.candidate, "timestamp") = Str("")
         \/ Get(last.arg, "timestamp") # Str("")
    /\ last.outcome.kind = "throw"

\* C9: the events the factories return to callers that pass no correlationId
\* carry a generated correlationId of the UUID form, and no two of them the same.
C9_GeneratedUnique ==
  /\ \A id \in BagToSet(generated) :
       /\ id.k = "string"
       /\ uuidRegex(id.s)
       /\ CopiesIn(id, generated) = 1
  /\ (/\ last.op \in FactoryOps
      /\ last.outcome.kind = "return"
      /\ Get(last.arg, "correlationId") = Undefined) =>
       /\ last.uuid # ""
       /\ Get(last.outcome.value, "correlationId") = Str(last.uuid)
       /\ BagIn(Str(last.uuid), generated)

\* two events were returned to callers that passed no correlationId
C9_Witness ==
  /\ BagCardinality(generated) >= 2
  /\ last.op = "createPaymentEvent"
  /\ last.outcome.kind = "return"
  /\ Get(last.arg, "correlationId") = Undefined

\* a correlationId or timestamp a caller may pass: a string of the schema's form
ValidCorrelationId(v) == v.k = "string" /\ uuidRegex(v.s)
ValidTimestamp(v) == v.k = "string" /\ datetimeRegex(v.s)

\* C10: a returned event carries the valid correlationId and timestamp the caller
\* passed; a generated value is used for a field the caller omitted, and only
\* for such a field.
C10_SuppliedKept ==
  (/\ last.op \in FactoryOps
   /\ last.outcome.kind = "return"
   /\ ValidCorrelationId(Get(last.arg, "correlationId"))
        \/ Get(last.arg, "correlationId") = Undefined
   /\ ValidTimestamp(Get(last.arg, "timestamp"))
        \/ Get(last.arg, "timestamp") = Undefined) =>
    LET e == last.outcome.value
    IN  /\ IF Get(last.arg, "correlationId") = Undefined
           THEN last.uuid # "" /\ Get(e, "correlationId") = Str(last.uuid)
           ELSE last.uuid = ""
                /\ Get(e, "correlationId") = Get(last.arg, "correlationId")
        /\ IF Get(last.arg, "timestamp") = Undefined
           THEN last.iso # "" /\ Get(e, "timestamp") = Str(last.iso)
           ELSE last.iso = "" /\ Get(e, "timestamp") = Get(last.arg, "timestamp")

\* a caller passed a correlationId and no timestamp
C10_Witness ==
  /\ last.op = "createOrderEvent"
  /\ last.outcome.kind = "return"
  /\ Get(last.arg, "correlationId") = Str(Uuid1)
  /\ ~HasKey(last.arg, "timestamp")
  /\ Get(last.outcome.value, "correlationId") = Str(Uuid1)
  /\ Get(last.outcome.value, "timestamp") = Str(toISOString(now))

\* the tags a factory has a schema for
FactoryFamily(op) == IF op = "createPaymentEvent" THEN PaymentTags ELSE OrderTags

\* the last call is a factory call for a tag of the factory's family
FactoryCall1 == last.op \in FactoryOps /\ last.type.s \in FactoryFamily(last.op)

\* the last factory call assembled a candidate
Assembled1 == last.op \in FactoryOps /\ last.candidate # NoCandidate

\* C11: a factory whose assembled candidate violates the schema of the requested
\* type throws a ZodError that carries every issue, and returns no event; a call
\* that assembles no candidate returns no event either.
C11_FailLoud ==
  /\ (FactoryCall1 /\ Assembled1
         /\ SchemaOf(last.type.s, last.candidate).issues # {}) =>
       /\ last.outcome.kind = "throw"
       /\ last.outcome.error = ZodError(SchemaOf(last.type.s, last.candidate).issues)
  /\ (FactoryCall1 /\ ~Assembled1) => last.outcome.kind = "throw"

\* createPaymentEvent was called for payment.authorized with a negative amount
C11_Witness ==
  /\ last.op = "createPaymentEvent"
  /\ last.type = Str("payment.authorized")
  /\ Get(Get(last.arg, "data"), "amount") = Num(-100)
  /\ last.outcome.kind = "throw"
  /\ Issue(<<"data", "amount">>, "too_small") \in last.outcome.error.issues

\* C12: a factory called with a tag it has no schema for throws an Error whose
\* message names the tag, whatever else the caller passes (valid parameters,
\* invalid ones or none), and returns no event.
C12_UnknownTypeThrows ==
  (last.op \in FactoryOps /\ last.type.s \notin FactoryFamily(last.op)) =>
    /\ last.outcome.kind = "throw"
    /\ last.outcome.error = Error("Unknown event type: " \o last.type.s)

\* the last call is a factory call for a tag of its family that returned an event
FactoryReturned1 == FactoryCall1 /\ last.outcome.kind = "return"

\* the supplied values an event is made of, but data
SuppliedKept(e) ==
  /\ SchemaOf(last.type.s, e).issues = {}
  /\ Get(e, "type") = last.type
  /\ Get(e, "orderId") = Get(last.arg, "orderId")
  /\ Get(e, "userId") = Get(last.arg, "userId")

\* a payload without the properties the schema of the tag does not declare, in
\* the payload and in each item
DeclaredOnly(tag, d) ==
  LET kept == [x \in (DOMAIN d.o) \cap DataKeys(tag) |-> d.o[x]]
  IN  Obj(IF "items" \in DOMAIN kept
          THEN Put(kept, "items",
                   Arr([i \in 1..Len(kept["items"].a) |->
                          Obj([x \in (DOMAIN kept["items"].a[i].o)
                                       \cap {"productId", "quantity", "price"} |->
                                 kept["items"].a[i].o[x]])]))
          ELSE kept)

\* C13 as stated: every event a factory returns satisfies the schema of the
\* requested type, and its type, orderId, userId and data equal the values the
\* caller supplied.
C13_ReturnedEqualsSupplied ==
  FactoryReturned1 =>
    /\ SuppliedKept(last.outcome.value)
    /\ Get(last.outcome.value, "data") = Get(last.arg, "data")

\* C13 as amended: every event a factory returns satisfies the schema of the
\* requested type, its type, orderId and userId equal the values the caller
\* supplied, and its data equals the supplied data without the properties the
\* schema does not declare.
C13_ReturnedEqualsDeclared ==
  FactoryReturned1 =>
    /\ SuppliedKept(last.outcome.value)
    /\ Get(last.outcome.value, "data")
         = DeclaredOnly(last.type.s, Get(last.arg, "data"))

\* a factory returned an event for a payload with undeclared properties
C13_Witness ==
  /\ FactoryReturned1
  /\ last.op = "createOrderEvent"
  /\ last.type = Str("order.confirmed")
  /\ HasKey(Get(last.arg, "data"), "note")
  /\ ~HasKey(Get(last.outcome.value, "data"), "note")
  /\ Get(Get(last.outcome.value, "data"), "totalAmount") = Rat(3998, 100)

\* the fields of a value: a property whose value is undefined reads like a
\* property that is not there
RECURSIVE Fields(_)
Fields(v) ==
  CASE v.k = "array" -> Arr([i \in 1..Len(v.a) |-> Fields(v.a[i])])
    [] v.k = "object" ->
         Obj([x \in {y \in DOMAIN v.o : v.o[y] # Undefined} |-> Fields(v.o[x])])
    [] OTHER -> v

\* validateEvent was applied to the message made of the event a factory returned
RoundTrip1 == Validated1 /\ last.sent # Undefined

\* C14: validateEvent applied to the serialized and parsed output of a factory
\* returns success, with data field for field equal to the factory's output.
C14_RoundTrip ==
  RoundTrip1 =>
    /\ last.outcome.kind = "return"
    /\ last.outcome.value.success
    /\ Fields(last.outcome.value.data) = Fields(last.sent)

\* the last call applied the exported schema of a tag to a value
Parsed1 == last.op = "parse"

\* C15: the schema of a tag rejects every object whose type is not that tag,
\* a tag of another schema included, even when the rest of the event is valid;
\* the failure is reported for type.
C15_OwnLiteralOnly ==
  (Parsed1 /\ last.arg.k = "object" /\ Get(last.arg, "type") # Str(last.schema)) =>
    /\ last.outcome.kind = "throw"
    /\ Issue(<<"type">>, "invalid_literal") \in last.outcome.error.issues

\* OrderCreatedSchema was applied to a valid order.created event whose type was
\* replaced by order.confirmed: the type is the one thing it rejects
C15_Witness ==
  /\ Parsed1
  /\ last.schema = "order.created"
  /\ last.arg = Obj(Put(ValidEvent("order.created").o, "type", Str("order.confirmed")))
  /\ last.outcome.kind = "throw"
  /\ last.outcome.error.issues = {Issue(<<"type">>, "invalid_literal")}

\* the required fields of the payload of a tag
RequiredData(tag) == DOMAIN ValidData(tag).o

\* the valid event of a tag without a field, left out or set to undefined
WithoutField(tag, key) ==
  {Obj(Remove(ValidEvent(tag).o, key)), Obj(Put(ValidEvent(tag).o, key, Undefined))}

\* the valid event of a tag without a field of its payload
WithoutDataField(tag, key) ==
  {Obj(Put(ValidEvent(tag).o, "data", Obj(Remove(ValidData(tag).o, key)))),
   Obj(Put(ValidEvent(tag).o, "data", Obj(Put(ValidData(tag).o, key, Undefined))))}

\* the failure of the last call names the field at the path, and no other
NamesOnly(error, path) ==
  /\ error.name = "ZodError"
  /\ {issue.path : issue \in error.issues} = {path}

\* C16: a valid event of any of the six tags without one required field (type,
\* orderId, userId, correlationId, timestamp, data or a required field of the
\* payload) fails validation, in validateEvent and in the schema of the tag, and
\* the failure names the missing field.
C16_MissingFieldNamed ==
  \A t \in SixTags :
    /\ \A key \in EventKeys :
         /\ (Validated1 /\ last.arg \in WithoutField(t, key)) =>
              /\ last.outcome.kind = "return"
              /\ ~last.outcome.value.success
              /\ IF key = "type"
                 THEN last.outcome.value.error = Error("Event type is required")
                 ELSE NamesOnly(last.outcome.value.error, <<key>>)
         /\ (Parsed1 /\ last.schema = t /\ last.arg \in WithoutField(t, key)) =>
              /\ last.outcome.kind = "throw"
              /\ NamesOnly(last.outcome.error, <<key>>)
    /\ \A key \in RequiredData(t) :
         /\ (Validated1 /\ last.arg \in WithoutDataField(t, key)) =>
              /\ last.outcome.kind = "return"
              /\ ~last.outcome.value.success
              /\ NamesOnly(last.outcome.value.error, <<"data", key>>)
         /\ (Parsed1 /\ last.schema = t /\ last.arg \in WithoutDataField(t, key)) =>
              /\ last.outcome.kind = "throw"
              /\ NamesOnly(last.outcome.error, <<"data", key>>)

\* validateEvent was given a valid payment.failed event without retryable
C16_Witness ==
  /\ Validated1
  /\ last.arg = Obj(Put(ValidEvent("payment.failed").o, "data",
                         Obj([reason |-> Str("Insufficient funds")])))
  /\ ~last.outcome.value.success
  /\ last.outcome.value.error.issues = {Issue(<<"data", "retryable">>, "invalid_type")}

\* a strictly positive integer
PositiveInteger(v) == v.k = "number" /\ v.den = 1 /\ v.num > 0

\* the last call was given an object whose key is there and is no positive integer
BadId1(key) ==
  /\ Validated1 \/ Parsed1
  /\ HasKey(last.arg, key)
  /\ ~PositiveInteger(Get(last.arg, key))

\* the last call rejected its argument; for a schema, or for validateEvent with
\* one of the six tags, the failure names the field
RejectedFor(key) ==
  IF Parsed1
  THEN /\ last.outcome.kind = "throw"
       /\ \E issue \in last.outcome.error.issues : issue.path = <<key>>
  ELSE /\ last.outcome.kind = "return"
       /\ ~last.outcome.value.success
       /\ (Get(last.arg, "type").k = "string" /\ Get(last.arg, "type").s \in SixTags) =>
            /\ last.outcome.value.error.name = "ZodError"
            /\ \E issue \in last.outcome.value.error.issues : issue.path = <<key>>

\* C17: an event whose orderId, or userId, is 0, negative or no integer fails
\* validation for every tag, in validateEvent and in each schema; a valid event
\* with another positive integer there is accepted.
C17_PositiveIntegerIds ==
  /\ \A key \in {"orderId", "userId"} :
       /\ BadId1(key) => RejectedFor(key)
       /\ \A t \in SixTags :
            (Validated1 /\ last.arg = Obj(Put(ValidEvent(t).o, key, Num(7)))) =>
              last.outcome.value.success

\* validateEvent was given a valid order.shipped event with orderId 1.5
C17_Witness ==
  /\ Validated1
  /\ last.arg = Obj(Put(ValidEvent("order.shipped").o, "orderId", Rat(3, 2)))
  /\ ~last.outcome.value.success
  /\ last.outcome.value.error.issues = {Issue(<<"orderId">>, "invalid_type")}

\* validateEvent was given a valid payment.authorized event with userId 0
C17_WitnessZero ==
  /\ Validated1
  /\ last.arg = Obj(Put(ValidEvent("payment.authorized").o, "userId", Num(0)))
  /\ ~last.outcome.value.success
  /\ last.outcome.value.error.issues = {Issue(<<"userId">>, "too_small")}

\* an item with a positive integer productId and quantity and a positive price
ValidItem(v) ==
  /\ v.k = "object"
  /\ PositiveInteger(Get(v, "productId"))
  /\ PositiveInteger(Get(v, "quantity"))
  /\ Get(v, "price").k = "number" /\ Get(v, "price").num > 0

\* the items of the last call's argument
Items1 == Get(Get(last.arg, "data"), "items")

\* the last call was given a valid event of the tag with another list as items
ItemsReplaced1(t) ==
  /\ Validated1 \/ (Parsed1 /\ last.schema = t)
  /\ Items1.k = "array"
  /\ last.arg = Obj(Put(ValidEvent(t).o, "data", Obj(Put(ValidData(t).o, "items", Items1))))

\* the last call accepted its argument
Accepted1 ==
  IF Parsed1 THEN last.outcome.kind = "return"
  ELSE last.outcome.kind = "return" /\ last.outcome.value.success

\* C18: order.created and order.confirmed accept an otherwise valid event
\* exactly when items has at least one item and every item is valid: an empty
\* list is rejected, and so is a list with one item whose price is not
\* positive or whose quantity or productId is not a positive integer.
C18_ItemsRule ==
  \A t \in {"order.created", "order.confirmed"} :
    ItemsReplaced1(t) =>
      (Accepted1 <=> (Len(Items1.a) >= 1 /\ \A i \in 1..Len(Items1.a) : ValidItem(Items1.a[i])))

\* validateEvent was given an order.confirmed event whose second item, of two,
\* has a quantity that is no integer
C18_Witness ==
  /\ ItemsReplaced1("order.confirmed")
  /\ Validated1
  /\ Len(Items1.a) = 2
  /\ ValidItem(Items1.a[1])
  /\ Get(Items1.a[2], "quantity") = Rat(3, 2)
  /\ ~last.outcome.value.success
  /\ last.outcome.value.error.issues
       = {Issue(<<"data", "items", "1", "quantity">>, "invalid_type")}

\* OrderCreatedSchema accepted an event with as many items as the model has
C18_WitnessLongest ==
  /\ ItemsReplaced1("order.created")
  /\ Parsed1
  /\ Len(Items1.a) = MaxItems
  /\ Items1.a[MaxItems] = Item2
  /\ last.outcome.kind = "return"

\* OrderCreatedSchema rejected an event with no item
C18_WitnessEmpty ==
  /\ ItemsReplaced1("order.created")
  /\ Parsed1
  /\ Items1.a = <<>>
  /\ last.outcome.kind = "throw"
  /\ last.outcome.error.issues = {Issue(<<"data", "items">>, "too_small")}

\* the last call, of validateEvent or of the schema of the tag, was given the
\* valid event of the tag with one field of the payload set to a value
DataFieldSet1(t, key) ==
  /\ Validated1 \/ (Parsed1 /\ last.schema = t)
  /\ HasKey(Get(last.arg, "data"), key)
  /\ last.arg = Obj(Put(ValidEvent(t).o, "data",
                         Obj(Put(ValidData(t).o, key, Get(Get(last.arg, "data"), key)))))

\* the value of that field
DataField1(key) == Get(Get(last.arg, "data"), key)

\* a number that is 0 or more
NonNegativeNumber(v) == v.k = "number" /\ v # NaN /\ v.num >= 0

\* C19: order.cancelled accepts a string as cancelledBy exactly when it is user,
\* system or admin; it accepts a number as refundAmount exactly when it is 0 or
\* more, and accepts an event without refundAmount.
C19_CancelledRule ==
  /\ (DataFieldSet1("order.cancelled", "cancelledBy")
        /\ DataField1("cancelledBy").k = "string") =>
       (Accepted1 <=> DataField1("cancelledBy").s \in {"user", "system", "admin"})
  /\ (DataFieldSet1("order.cancelled", "refundAmount")
        /\ DataField1("refundAmount").k = "number") =>
       (Accepted1 <=> NonNegativeNumber(DataField1("refundAmount")))
  /\ ((Validated1 \/ (Parsed1 /\ last.schema = "order.cancelled"))
        /\ last.arg = ValidEvent("order.cancelled")) =>
       Accepted1

\* validateEvent accepted an order.cancelled event with refundAmount 0
C19_Witness ==
  /\ Validated1
  /\ DataFieldSet1("order.cancelled", "refundAmount")
  /\ DataField1("refundAmount") = Num(0)
  /\ last.outcome.value.success
  /\ Get(Get(last.outcome.value.data, "data"), "refundAmount") = Num(0)

\* validateEvent rejected an order.cancelled event cancelled by "User"
C19_WitnessCancelledBy ==
  /\ Validated1
  /\ DataFieldSet1("order.cancelled", "cancelledBy")
  /\ DataField1("cancelledBy") = Str("User")
  /\ ~last.outcome.value.success
  /\ last.outcome.value.error.issues
       = {Issue(<<"data", "cancelledBy">>, "invalid_enum_value")}

\* OrderCancelledSchema rejected an event with refundAmount -1
C19_WitnessNegative ==
  /\ Parsed1
  /\ DataFieldSet1("order.cancelled", "refundAmount")
  /\ DataField1("refundAmount") = Num(-1)
  /\ last.outcome.kind = "throw"

\* a string of length 1 or more
NonEmptyString(v) == v.k = "string" /\ Len(v.s) >= 1

\* the last call applied the payment.authorized schema: by validateEvent for an
\* object with that tag, or directly
PaymentAuthorized1 ==
  \/ Validated1 /\ Get(last.arg, "type") = Str("payment.authorized")
  \/ Parsed1 /\ last.schema = "payment.authorized"

\* C20: payment.authorized accepts an event only when data.amount is a number
\* above 0 and data.transactionId and data.currency are non-empty strings; an
\* otherwise valid event is accepted exactly when these hold.
C20_PaymentAuthorizedRule ==
  /\ (PaymentAuthorized1 /\ Accepted1) =>
       LET d == Get(last.arg, "data")
       IN  /\ Get(d, "amount").k = "number" /\ Get(d, "amount").num > 0
           /\ NonEmptyString(Get(d, "transactionId"))
           /\ NonEmptyString(Get(d, "currency"))
  /\ \A key \in {"transactionId", "currency"} :
       DataFieldSet1("payment.authorized", key) =>
         (Accepted1 <=> NonEmptyString(DataField1(key)))
  /\ DataFieldSet1("payment.authorized", "amount") =>
       (Accepted1 <=> (DataField1("amount").k = "number" /\ DataField1("amount").num > 0))

\* validateEvent rejected a payment.authorized event with amount 0
C20_Witness ==
  /\ Validated1
  /\ DataFieldSet1("payment.authorized", "amount")
  /\ DataField1("amount") = Num(0)
  /\ ~last.outcome.value.success
  /\ last.outcome.value.error.issues = {Issue(<<"data", "amount">>, "too_small")}

\* PaymentAuthorizedSchema rejected an event with currency ""
C20_WitnessCurrency ==
  /\ Parsed1
  /\ DataFieldSet1("payment.authorized", "currency")
  /\ DataField1("currency") = Str("")
  /\ last.outcome.kind = "throw"
  /\ last.outcome.error.issues = {Issue(<<"data", "currency">>, "too_small")}

\* validateEvent accepted a payment.authorized event with amount 1.5
C20_WitnessAccepted ==
  /\ Validated1
  /\ DataFieldSet1("payment.authorized", "amount")
  /\ DataField1("amount") = Rat(3, 2)
  /\ last.outcome.value.success

\* the last call is a call of a factory with a tag of its family
FamilyCall1 ==
  /\ last.op \in FactoryOps
  /\ last.type.k = "string"
  /\ last.type.s \in FactoryFamily(last.op)

\* the paths an error names
PathsOf(error) == {issue.path : issue \in error.issues}

\* C21: for an event with two or more violated fields, the failure validateEvent
\* returns, and the error a factory throws for that candidate, is a ZodError
\* that names every violated field, not only the first.
C21_AllViolationsReported ==
  \A c \in MultiViolationCases :
    /\ (Validated1 /\ last.arg = c.event) =>
         /\ last.outcome.kind = "return"
         /\ ~last.outcome.value.success
         /\ last.outcome.value.error.name = "ZodError"
         /\ PathsOf(last.outcome.value.error) = c.paths
    /\ (FamilyCall1 /\ last.candidate = c.event) =>
         /\ last.outcome.kind = "throw"
         /\ last.outcome.error.name = "ZodError"
         /\ PathsOf(last.outcome.error) = c.paths

\* createOrderEvent threw for an order.created candidate with orderId 0 and no
\* item, and the error names both
C21_Witness ==
  /\ last.op = "createOrderEvent"
  /\ last.candidate
       = WithViolations("order.created",
                        {<<<<"orderId">>, Num(0)>>, <<<<"data", "items">>, Arr(<<>>)>>})
  /\ last.outcome.kind = "throw"
  /\ last.outcome.error.issues
       = {Issue(<<"orderId">>, "too_small"), Issue(<<"data", "items">>, "too_small")}

\* validateEvent returned a failure that names six fields
C21_WitnessSix ==
  /\ Validated1
  /\ Get(last.arg, "type") = Str("payment.failed")
  /\ ~last.outcome.value.success
  /\ Cardinality(PathsOf(last.outcome.value.error)) = 6

\* what validateEvent makes of the candidate the last factory call assembled
OfCandidate == validateEvent(last.candidate).outcome

\* C22: for a candidate of a tag of the factory's family, the factory returns
\* an event exactly when validateEvent accepts the candidate; the event is then
\* the data validateEvent returns, and otherwise the error the factory throws
\* is the error validateEvent returns.
C22_SameCheck ==
  (FamilyCall1 /\ Assembled1) =>
    /\ OfCandidate.kind = "return"
    /\ (last.outcome.kind = "return") <=> OfCandidate.value.success
    /\ last.outcome.kind = "return" => OfCandidate.value.data = last.outcome.value
    /\ last.outcome.kind = "throw" => OfCandidate.value.error = last.outcome.error

\* createPaymentEvent threw for a payment.authorized candidate that the
\* producer gave in full, with amount 0 and an empty currency
C22_Witness ==
  /\ last.op = "createPaymentEvent"
  /\ last.candidate = input
  /\ last.candidate
       = WithViolations("payment.authorized",
                        {<<<<"data", "amount">>, Num(0)>>, <<<<"data", "currency">>, Str("")>>})
  /\ last.outcome.kind = "throw"
  /\ ~OfCandidate.value.success

\* createOrderEvent returned an order.confirmed event for a candidate given in full
C22_WitnessReturned ==
  /\ last.op = "createOrderEvent"
  /\ last.candidate = ValidEvent("order.confirmed")
  /\ last.outcome.kind = "return"
  /\ OfCandidate.value.success

\* YYYY-MM-DDTHH:MM:SS.mmmZ
MillisecondForm(s) == Len(s) = 24 /\ datetimeRegex(s)

\* parameters with a valid orderId, userId and payload and nothing else
BareValidParams(type) ==
  {Obj([orderId |-> Num(id), userId |-> Num(100), data |-> d]) :
     id \in {1}, d \in {ValidData(type.s), ExtraData(type), InfiniteData(type)}}

\* C24: a factory call with a valid orderId, userId and payload and without
\* correlationId and timestamp returns an event; its timestamp is an instant of
\* the clock, not after the present one, in the form YYYY-MM-DDTHH:MM:SS.mmmZ,
\* its correlationId is the UUID the call drew, and both satisfy the schema.
C24_BareCallSucceeds ==
  (FactoryCall1 /\ last.arg \in BareValidParams(last.type)) =>
    /\ last.outcome.kind = "return"
    /\ LET e == last.outcome.value
       IN  /\ Get(e, "timestamp") \in {Str(toISOString(t)) : t \in 0..now}
           /\ Get(e, "timestamp") = Str(last.iso)
           /\ MillisecondForm(Get(e, "timestamp").s)
           /\ ZDatetime(Get(e, "timestamp"), <<"timestamp">>) = {}
           /\ Get(e, "correlationId") = Str(last.uuid)
           /\ last.uuid \in issued
           /\ ZUuid(Get(e, "correlationId"), <<"correlationId">>) = {}

\* createPaymentEvent returned a payment.failed event made one millisecond
\* after the base instant
C24_Witness ==
  /\ last.op = "createPaymentEvent"
  /\ last.type = Str("payment.failed")
  /\ last.arg \in BareValidParams(last.type)
  /\ last.outcome.kind = "return"
  /\ Get(last.outcome.value, "timestamp") = Str("2026-10-31T12:00:00.001Z")

\* the canonical form of a version 4 UUID: 8-4-4-4-12 hexadecimal digits, the
\* version digit 4 and a variant digit of RFC 4122
UuidV4Form(s) ==
  /\ uuidRegex(s)
  /\ Ch(s, 15) = "4"
  /\ Ch(s, 20) \in {"8", "9", "a", "b", "A", "B"}

\* validateEvent was called with an event that is valid but for the string it
\* has as correlationId
CorrelationIdCall1 ==
  /\ last.op = "validateEvent"
  /\ last.arg.k = "object"
  /\ Get(last.arg, "correlationId").k = "string"
  /\ \E t \in Tags : Obj(Put(last.arg.o, "correlationId", Str(Uuid1))) = ValidEvent(t)

\* C25: for every type, an event that is otherwise valid is accepted if and only
\* if its correlationId has the canonical form of a version 4 UUID.
C25_V4Only ==
  CorrelationIdCall1 =>
    (last.outcome.value.success <=> UuidV4Form(Get(last.arg, "correlationId").s))

\* the tags the validator of the last call knows: six, or the four order tags
\* in the four-type release
KnownTags1 == IF last.op = "validateEventLegacy" THEN OrderTags ELSE SixTags

\* the envelope stage a value fails at, by its shape alone
EnvelopeStage(v) ==
  IF v.k \notin {"object", "array"} THEN "object"
  ELSE IF v.k = "array" \/ "type" \notin DOMAIN v.o THEN "type"
  ELSE IF v.o["type"] \in {Null, Undefined, Str("")} THEN "type"
  ELSE IF v.o["type"].k = "string" /\ v.o["type"].s \notin KnownTags1 THEN "known"
  ELSE IF v.o["type"].k = "string" THEN "schema"
  ELSE "other"

\* C26: validateEvent reports the first stage that fails, in the order object,
\* type present, type known, schema: a value that is no object gets the
\* non-object failure, one without a type gets "Event type is required", one
\* with an unknown tag gets "Unknown event type: <tag>", whatever its other
\* fields are; a schema is consulted only for one of the tags the validator
\* knows, and only then is the failure a list of field violations.  The same
\* holds of the validateEvent of the four-type release with its four tags.
C26_StagesInOrder ==
  last.op \in {"validateEvent", "validateEventLegacy"} =>
    LET v == last.arg
        res == last.outcome.value
        stage == EnvelopeStage(v)
    IN  /\ last.outcome.kind = "return"
        /\ stage = "object" =>
              ~res.success /\ res.error = Error("Event must be a non-null object")
        /\ stage = "type" =>
              ~res.success /\ res.error = Error("Event type is required")
        /\ stage = "known" =>
              /\ ~res.success
              /\ res.error = Error("Unknown event type: " \o v.o["type"].s)
        /\ stage = "schema" =>
              /\ last.parsed = {v.o["type"].s}
              /\ ~res.success => res.error.name = "ZodError"
        /\ stage # "schema" => last.parsed = {}
        /\ (~res.success /\ res.error.name = "ZodError") => stage = "schema"

\* an order.created event with six invalid fields and no type
C26_Witness ==
  /\ Validated1
  /\ \E c \in MultiViolationCases :
       /\ Cardinality(c.paths) = 6
       /\ Get(c.event, "type") = Str("order.created")
       /\ last.arg = Obj(Remove(c.event.o, "type"))
  /\ last.outcome.value.error = Error("Event type is required")
  /\ last.parsed = {}

\* the validateEvent of the four-type release was given a valid payment.failed
\* event
C26_WitnessLegacy ==
  /\ last.op = "validateEventLegacy"
  /\ last.arg = ValidEvent("payment.failed")
  /\ last.outcome.value.error = Error("Unknown event type: payment.failed")
  /\ last.parsed = {}

\* a payment.failed event with six invalid fields and an unknown tag
C26_WitnessUnknown ==
  /\ Validated1
  /\ \E c \in MultiViolationCases :
       /\ Cardinality(c.paths) = 6
       /\ Get(c.event, "type") = Str("payment.failed")
       /\ last.arg = Obj(Put(c.event.o, "type", Str("unknown.event")))
  /\ last.outcome.value.error = Error("Unknown event type: unknown.event")
  /\ last.parsed = {}

\* a factory was called with one of the six tags, and the tag is that of the
\* candidate
SixTagCall1 ==
  /\ last.op \in FactoryOps
  /\ last.type.k = "string"
  /\ last.type.s \in SixTags
  /\ Get(input, "type") = last.type

\* C28: a factory called with a tag of the other family throws "Unknown event
\* type: <tag>", though validateEvent takes the same tag to its schema, so it
\* returns events for the tags of its family and no others.
C28_OwnFamilyOnly ==
  SixTagCall1 =>
    /\ validateEvent(input).parsed = {last.type.s}
    /\ last.type.s \notin FactoryFamily(last.op) =>
          /\ last.outcome.kind = "throw"
          /\ last.outcome.error = Error("Unknown event type: " \o last.type.s)
    /\ last.outcome.kind = "return" => last.type.s \in FactoryFamily(last.op)

\* an event without the fields its tag's schema does not name, at the top
\* level, in the payload and in each item
DeclaredEvent(tag, v) ==
  LET top == [x \in (DOMAIN v.o) \cap EventKeys |-> v.o[x]]
  IN  Obj(Put(top, "data", DeclaredOnly(tag, v.o["data"])))

\* validateEvent was called with an object of one of the six tags that
\* satisfies the schema of its tag
SatisfyingCall1 ==
  /\ Validated1
  /\ last.arg.k = "object"
  /\ Get(last.arg, "type").k = "string"
  /\ Get(last.arg, "type").s \in SixTags
  /\ SchemaOf(Get(last.arg, "type").s, last.arg).issues = {}

\* C29: an event that satisfies its schema is accepted by validateEvent whatever
\* unknown fields it carries; the data returned has the schema's fields only,
\* with the values of the input, and equals the input when the input has no
\* unknown field.
C29_UnknownFieldsDropped ==
  SatisfyingCall1 =>
    LET tag == Get(last.arg, "type").s
        res == last.outcome.value
    IN  /\ res.success
        /\ res.data = DeclaredEvent(tag, last.arg)
        /\ DOMAIN res.data.o \subseteq EventKeys
        /\ DOMAIN res.data.o["data"].o \subseteq DataKeys(tag)
        /\ last.arg = DeclaredEvent(tag, last.arg) => res.data = last.arg

\* validateEvent accepted an order.created event with an unknown field at the
\* top level, in the payload and in an item, and returned it without them
C29_Witness ==
  /\ SatisfyingCall1
  /\ Get(last.arg, "type") = Str("order.created")
  /\ "traceId" \in DOMAIN last.arg.o
  /\ "note" \in DOMAIN last.arg.o["data"].o
  /\ "sku" \in DOMAIN last.arg.o["data"].o["items"].a[1].o
  /\ last.outcome.value.success
  /\ last.outcome.value.data = ValidEvent("order.created")

\* validateEvent returned an event with no unknown field as it was given
C29_WitnessSame ==
  /\ SatisfyingCall1
  /\ last.arg = ValidEvent("payment.authorized")
  /\ last.outcome.value.data = last.arg

\* validateEvent was applied to the data of its own success
Revalidated1 == Validated1 /\ "first" \in DOMAIN last

\* C30: validateEvent applied to the data it returned with a success succeeds
\* again, and returns data equal to it, with the same type tag.
C30_Idempotent ==
  Revalidated1 =>
    /\ last.arg = last.first.data
    /\ last.outcome.kind = "return"
    /\ last.outcome.value.success
    /\ last.outcome.value.data = last.first.data
    /\ Get(last.outcome.value.data, "type") = Get(last.first.data, "type")

\* validateEvent was applied again to the data it made of an order.confirmed
\* event with unknown fields, which differs from that event
C30_Witness ==
  /\ Revalidated1
  /\ "traceId" \in DOMAIN input.o
  /\ Get(input, "type") = Str("order.confirmed")
  /\ last.arg # input
  /\ last.arg = ValidEvent("order.confirmed")
  /\ last.outcome.value.success

====
